---------------------------- MODULE Spec2Model ----------------------------
(***************************************************************************)
(* BATSim: a distributed agent-based traffic simulator.                    *)
(*                                                                         *)
(* Part I   - the Fibonacci heap of include/FiboHeap.hpp, as an arena of   *)
(*            nodes addressed by index (0 is the NULL pointer).            *)
(* Part II  - the path planners of src/Network.cpp, built on the heap.     *)
(* Part III - the tick loop of src/Model.cpp on NProc workers.             *)
(***************************************************************************)
EXTENDS Integers, Sequences, FiniteSets, TLC

(***************************************************************************)
(* Generic helpers.                                                        *)
(***************************************************************************)
MaxOf(S) == CHOOSE x \in S : \A y \in S : y <= x

MinOf(S) == CHOOSE x \in S : \A y \in S : x <= y

(***************************************************************************)
(* PART I - FibonacciHeapNode / FibonacciHeap                              *)
(*                                                                         *)
(* A heap value is a record                                                *)
(*   nodes     : the arena, a sequence of node records                     *)
(*   min       : rootWithMinKey (0 = NULL)                                 *)
(*   count     : number of elements                                        *)
(*   maxDegree : maximum degree of a root                                  *)
(*   err       : "" or the message of the exception thrown by the last op  *)
(* A node record carries the C++ fields plus `live` (the entry is still in *)
(* the heap) and `freed` (operator delete was applied to it).              *)
(***************************************************************************)
NULL == 0

NoErr == ""

NewNode(d, k, self) ==
    [key |-> k, data |-> d, degree |-> 0, mark |-> FALSE,
     previous |-> self, next |-> self, child |-> NULL, parent |-> NULL,
     live |-> TRUE, freed |-> FALSE]

\* a node after `delete` : its storage is released and holds nothing any more
Released ==
    [key |-> 0, data |-> 0, degree |-> 0, mark |-> FALSE,
     previous |-> NULL, next |-> NULL, child |-> NULL, parent |-> NULL,
     live |-> FALSE, freed |-> TRUE]

EmptyHeap == [nodes |-> << >>, min |-> NULL, count |-> 0, maxDegree |-> 0, err |-> NoErr]

\* FibonacciHeapNode::isSingle
IsSingle(ns, this) == ns[this].next = this

\* FibonacciHeapNode::insert : splice the ring of `other` after `this`
ListInsert(ns, this, other) ==
    IF other = NULL THEN ns
    ELSE LET n1 == [ns EXCEPT ![ns[this].next].previous = ns[other].previous]
             n2 == [n1 EXCEPT ![n1[other].previous].next = n1[this].next]
             n3 == [n2 EXCEPT ![this].next = other]
         IN  [n3 EXCEPT ![other].previous = this]

\* FibonacciHeapNode::remove : unlink `this` from its ring
ListRemove(ns, this) ==
    LET n1 == [ns EXCEPT ![ns[this].previous].next = ns[this].next]
        n2 == [n1 EXCEPT ![n1[this].next].previous = n1[this].previous]
    IN  [n2 EXCEPT ![this].next = this, ![this].previous = this]

\* FibonacciHeapNode::addChild
AddChild(ns, this, other) ==
    LET n1 == IF ns[this].child = NULL
              THEN [ns EXCEPT ![this].child = other]
              ELSE ListInsert(ns, ns[this].child, other)
        n2 == [n1 EXCEPT ![other].parent = this, ![other].mark = FALSE]
    IN  [n2 EXCEPT ![this].degree = @ + 1]

\* FibonacciHeapNode::removeChild ; result [ns, err]
RemoveChild(ns, this, other) ==
    IF ns[other].parent # this
    THEN [ns |-> ns, err |-> "Trying to remove a child from a non-parent"]
    ELSE IF IsSingle(ns, other) /\ ns[this].child # other
    THEN [ns |-> ns, err |-> "Trying to remove a non-child"]
    ELSE LET n1 == IF IsSingle(ns, other)
                   THEN [ns EXCEPT ![this].child = NULL]
                   ELSE LET m1 == IF ns[this].child = other
                                  THEN [ns EXCEPT ![this].child = ns[other].next]
                                  ELSE ns
                        IN  ListRemove(m1, other)
             n2 == [n1 EXCEPT ![other].parent = NULL, ![other].mark = FALSE]
         IN  [ns |-> [n2 EXCEPT ![this].degree = @ - 1], err |-> NoErr]

\* insertNode that splices the node in but leaves rootWithMinKey where it was
InsertNodeKeepMin(h, newNode) ==
    IF h.min = NULL
    THEN [h EXCEPT !.min = newNode]
    ELSE [h EXCEPT !.nodes = ListInsert(h.nodes, h.min, newNode)]

\* FibonacciHeap::insertNode
InsertNode(h, newNode) ==
    IF h.min = NULL
    THEN [h EXCEPT !.min = newNode]
    ELSE LET ns1 == ListInsert(h.nodes, h.min, newNode)
         IN  [h EXCEPT !.nodes = ns1,
                       !.min = IF ns1[newNode].key < ns1[h.min].key
                               THEN newNode ELSE h.min]

\* The handle FibonacciHeap::insert returns for the next insertion
NextHandle(h) == Len(h.nodes) + 1

\* FibonacciHeap::insert
HeapInsert(h, d, k) ==
    LET n  == NextHandle(h)
        h1 == [h EXCEPT !.count = @ + 1,
                        !.nodes = Append(h.nodes, NewNode(d, k, n)),
                        !.err = NoErr]
    IN  InsertNode(h1, n)

\* FibonacciHeap::empty
HeapEmpty(h) == h.count = 0

\* minimum that hands out the last node of the arena once the heap is empty
HeapMinimumStale(h) == IF h.min = NULL /\ h.nodes # << >> THEN Len(h.nodes) ELSE h.min

\* FibonacciHeap::minimum ; NULL stands for the thrown "no minimum element"
HeapMinimum(h) == h.min

\* deletemin, phase 1 : do { c->parent = NULL; c = c->next; } while (c != child)
RECURSIVE ClearParents(_, _, _)
ClearParents(ns, c, stop) ==
    LET n1  == [ns EXCEPT ![c].parent = NULL]
        nxt == n1[c].next
    IN  IF nxt = stop THEN n1 ELSE ClearParents(n1, nxt, stop)

\* deletemin, phase 2, inner while : merge roots of equal degree.
\* degreeRoots is kept as a map from degree to root; an absent degree is NULL
\* (the array is allocated with maxDegree+250 slots and grows on demand).
RECURSIVE MergeSameDegree(_, _, _, _)
MergeSameDegree(ns, dr, current, deg) ==
    IF deg \notin DOMAIN dr
    THEN [ns |-> ns, dr |-> dr, current |-> current, deg |-> deg]
    ELSE LET o0   == dr[deg]
             swp  == ns[current].key > ns[o0].key
             cur  == IF swp THEN o0 ELSE current
             oth  == IF swp THEN current ELSE o0
             n1   == ListRemove(ns, oth)
             n2   == AddChild(n1, cur, oth)
             dr2  == [d \in (DOMAIN dr) \ {deg} |-> dr[d]]
         IN  MergeSameDegree(n2, dr2, cur, deg + 1)

\* deletemin, phase 2, outer do-while over the root list
RECURSIVE Consolidate(_, _, _, _)
Consolidate(ns, dr, currentPointer, root) ==
    LET nxt == ns[currentPointer].next
        Store(m) ==
            IF nxt = root THEN [ns |-> m.ns, dr |-> (m.deg :> m.current) @@ m.dr]
            ELSE Consolidate(m.ns, (m.deg :> m.current) @@ m.dr, nxt, root)
    IN  Store(MergeSameDegree(ns, dr, currentPointer, ns[currentPointer].degree))

\* deletemin, phase 3 : reinsert the kept roots by increasing degree
RECURSIVE ReinsertRoots(_, _, _, _)
ReinsertRoots(h, dr, d, top) ==
    IF d > top THEN h
    ELSE IF d \notin DOMAIN dr THEN ReinsertRoots(h, dr, d + 1, top)
    ELSE LET r  == dr[d]
             h1 == [h EXCEPT !.nodes[r].next = r, !.nodes[r].previous = r]
         IN  ReinsertRoots(InsertNode(h1, r), dr, d + 1, top)

\* FibonacciHeap::deletemin
DeleteMin(h) ==
    IF h.min = NULL
    THEN [h EXCEPT !.err = "trying to remove from an empty heap"]
    ELSE
    LET r   == h.min
        cnt == h.count - 1
        c0  == h.nodes[r].child
        \* phase 3, on the outcome c of the consolidation
        Rebuild(c) ==
            [ReinsertRoots([h EXCEPT !.nodes = [c.ns EXCEPT ![r] = Released],
                                     !.count = cnt, !.min = NULL,
                                     !.maxDegree = 0, !.err = NoErr],
                           c.dr, 0, MaxOf(DOMAIN c.dr))
               EXCEPT !.maxDegree = MaxOf(DOMAIN c.dr)]
        \* phase 2, on the nodes ns1 left by phase 1
        Phase2(ns1) ==
            IF ns1[r].next = r
            THEN IF cnt # 0
                 THEN [h EXCEPT !.nodes = ns1, !.count = cnt,
                                !.err = "Internal error: should have 0 keys"]
                 ELSE [h EXCEPT !.nodes = [ns1 EXCEPT ![r].live = FALSE],
                                !.count = cnt, !.min = NULL, !.err = NoErr]
            ELSE Rebuild(Consolidate(ns1, << >>, ns1[r].next, r))
    IN  Phase2(IF c0 = NULL THEN h.nodes
               ELSE ListInsert([ClearParents(h.nodes, c0, c0) EXCEPT ![r].child = NULL],
                               r, c0))

\* decreaseKey, the cascading-cut loop  for(;;) { ... }
RECURSIVE CutLoop(_, _, _)
CutLoop(h, node, parent) ==
    LET Climb(h2) ==
            IF h2.nodes[parent].parent = NULL THEN h2
            ELSE IF ~h2.nodes[parent].mark
                 THEN [h2 EXCEPT !.nodes[parent].mark = TRUE]
                 ELSE CutLoop(h2, parent, h2.nodes[parent].parent)
        Cut(rc) ==
            IF rc.err # NoErr THEN [h EXCEPT !.err = rc.err]
            ELSE Climb(InsertNode([h EXCEPT !.nodes = rc.ns], node))
    IN  Cut(RemoveChild(h.nodes, parent, node))

\* decreaseKey that never moves rootWithMinKey to a root whose key it lowered
DecreaseKeyKeepMin(h, node, newKey) ==
    IF newKey > h.nodes[node].key
    THEN [h EXCEPT !.err = "Trying to decrease key to a greater key"]
    ELSE LET h1     == [h EXCEPT !.nodes[node].key = newKey, !.err = NoErr]
             parent == h1.nodes[node].parent
         IN  IF parent = NULL THEN h1
             ELSE IF h1.nodes[parent].key <= newKey THEN h1
             ELSE CutLoop(h1, node, parent)

\* FibonacciHeap::decreaseKey
DecreaseKey(h, node, newKey) ==
    IF newKey > h.nodes[node].key
    THEN [h EXCEPT !.err = "Trying to decrease key to a greater key"]
    ELSE LET h1     == [h EXCEPT !.nodes[node].key = newKey, !.err = NoErr]
             parent == h1.nodes[node].parent
         IN  IF parent = NULL
             THEN IF newKey < h1.nodes[h1.min].key
                  THEN [h1 EXCEPT !.min = node] ELSE h1
             ELSE IF h1.nodes[parent].key <= newKey THEN h1
             ELSE CutLoop(h1, node, parent)

\* FibonacciHeap::getCount
GetCount(h) == h.count

\* the arena ns moved behind an arena of off nodes: every pointer is shifted
Relocate(ns, off) ==
    LET Shift(q) == IF q = NULL THEN NULL ELSE q + off
    IN  [i \in 1 .. Len(ns) |->
           [ns[i] EXCEPT !.previous = Shift(@), !.next = Shift(@),
                         !.child = Shift(@), !.parent = Shift(@)]]

\* FibonacciHeap::merge : the set of outcomes of a.merge(b).
\* The nodes of b follow those of a in the arena.  The first statement calls
\* rootWithMinKey->insert(other.rootWithMinKey) without a test: insert
\* returns at once when its argument is NULL, and otherwise reads this->next,
\* through the NULL pointer when a is empty; the process is then killed.
Merge(a, b) ==
    LET off  == Len(a.nodes)
        ns   == a.nodes \o Relocate(b.nodes, off)
        bmin == IF b.min = NULL THEN NULL ELSE b.min + off
        ns1  == IF a.min = NULL THEN ns ELSE ListInsert(ns, a.min, bmin)
    IN  IF a.min = NULL /\ bmin # NULL
        THEN {[a EXCEPT !.err = "SIGSEGV"]}
        ELSE {[a EXCEPT !.nodes = ns1,
                        !.min = IF a.min = NULL
                                   \/ (bmin # NULL /\ ns1[bmin].key < ns1[a.min].key)
                                THEN bmin ELSE a.min,
                        !.count = a.count + b.count,
                        !.err = NoErr]}

(***************************************************************************)
(* PART II - Network : travel time, heuristic and the three planners       *)
(*                                                                         *)
(* A network value nw is a record                                          *)
(*   n     : number of nodes; node ids are 1..n in the order of the        *)
(*           std::map<std::string, Node> (its iteration order)             *)
(*   xd,yd : physical coordinates (_x_data, _y_data) per node              *)
(*   out   : per node, the sequence _links_out_id                          *)
(*   links : per link id, [from, to, fft, len, cap]                        *)
(* Costs are floats in the code; they are integers here, and the two       *)
(* float magnitudes the planners rely on are FltMax                        *)
(* (numeric_limits<float>::max()) and HalfMax (its half).  Adding a small  *)
(* value to one of them is absorbed by rounding, as in IEEE arithmetic.    *)
(***************************************************************************)
FltMax == 1000

HalfMax == FltMax \div 2

Inf == FltMax + 1

\* float addition on the magnitudes above
FAdd(a, b) ==
    LET big   == IF a >= b THEN a ELSE b
        small == IF a >= b THEN b ELSE a
    IN  IF big < HalfMax THEN a + b
        ELSE IF small < HalfMax THEN big
        ELSE IF a + b > FltMax THEN Inf ELSE a + b

Abs(x) == IF x < 0 THEN -x ELSE x

\* Link::getFreeFlowTime / Link::getLength selected by the `fastest` flag
LinkCost(nw, l, fastest) == IF fastest THEN nw.links[l].fft ELSE nw.links[l].len

\* Network::euclidian_distance (L1 distance on the physical coordinates)
EuclidianDistance(nw, s, d) == Abs(nw.xd[d] - nw.xd[s]) + Abs(nw.yd[d] - nw.yd[s])

\* a reconstruction that returns the links in the order of travel
RECURSIVE ReconstructForward(_, _, _, _, _, _)
ReconstructForward(nw, prec, curr, source, acc, fuel) ==
    IF curr \notin DOMAIN prec THEN [path |-> << >>, err |-> "out_of_range"]
    ELSE IF fuel = 0 THEN [path |-> << >>, err |-> "diverges"]
    ELSE LET l   == prec[curr]
             nxt == nw.links[l].from
             a2  == <<l>> \o acc
         IN  IF nxt = source THEN [path |-> a2, err |-> NoErr]
             ELSE ReconstructForward(nw, prec, nxt, source, a2, fuel - 1)

\* reconstruction of the path: do { push_back(prec.at(curr)); ... } while (curr != source)
RECURSIVE Reconstruct(_, _, _, _, _, _)
Reconstruct(nw, prec, curr, source, acc, fuel) ==
    IF curr \notin DOMAIN prec THEN [path |-> << >>, err |-> "out_of_range"]
    ELSE IF fuel = 0 THEN [path |-> << >>, err |-> "diverges"]
    ELSE LET l   == prec[curr]
             nxt == nw.links[l].from
             a2  == Append(acc, l)
         IN  IF nxt = source THEN [path |-> a2, err |-> NoErr]
             ELSE Reconstruct(nw, prec, nxt, source, a2, fuel - 1)

\* computePath : insertion of every node with key FLT_MAX
RECURSIVE InsertAllNodes(_, _, _, _)
InsertAllNodes(Q, Qn, i, n) ==
    IF i > n THEN [Q |-> Q, Qn |-> Qn]
    ELSE InsertAllNodes(HeapInsert(Q, i, FltMax), (i :> NextHandle(Q)) @@ Qn, i + 1, n)

\* computePath : the for loop over the outgoing links of node i
RECURSIVE RelaxPlain(_, _, _, _, _, _)
RelaxPlain(nw, st, i, d, j, fastest) ==
    IF j > Len(nw.out[i]) THEN st
    ELSE LET l  == nw.out[i][j]
             id == nw.links[l].to
         IN  IF id \in st.marked THEN RelaxPlain(nw, st, i, d, j + 1, fastest)
             ELSE LET key_j == st.Q.nodes[st.Qn[id]].key
                      w_ij  == FAdd(LinkCost(nw, l, fastest), d)
                      st2   == IF w_ij < key_j
                               THEN [st EXCEPT !.Q = DecreaseKey(st.Q, st.Qn[id], w_ij),
                                               !.prec = (id :> l) @@ st.prec]
                               ELSE st
                  IN  RelaxPlain(nw, st2, i, d, j + 1, fastest)

\* computePath : the Dijkstra main loop
RECURSIVE DijkstraLoop(_, _, _, _)
DijkstraLoop(nw, st, dest, fastest) ==
    IF st.curr = dest THEN st
    ELSE IF HeapMinimum(st.Q) = NULL THEN [st EXCEPT !.err = "no minimum element"]
    ELSE LET m    == HeapMinimum(st.Q)
             curr == st.Q.nodes[m].data
             d    == st.Q.nodes[m].key
             st1  == [st EXCEPT !.curr = curr, !.marked = @ \cup {curr}]
             Pop(st2) == [st2 EXCEPT !.Q = DeleteMin(st2.Q)]
         IN  DijkstraLoop(nw, Pop(RelaxPlain(nw, st1, curr, d, 1, fastest)), dest, fastest)

\* Network::computePath(source_id, dest_id, fastest)
ComputePath(nw, source, dest, fastest) ==
    LET Start(ins) ==
            [Q |-> HeapInsert(ins.Q, source, 0),
             Qn |-> (source :> NextHandle(ins.Q)) @@ ins.Qn,
             marked |-> {source}, prec |-> << >>, curr |-> source, err |-> NoErr]
        Finish(st) ==
            IF st.err # NoErr THEN [path |-> << >>, err |-> st.err]
            ELSE Reconstruct(nw, st.prec, st.curr, source, << >>, nw.n)
    IN  Finish(DijkstraLoop(nw, Start(InsertAllNodes(EmptyHeap, << >>, 1, nw.n)),
                            dest, fastest))

\* computePathAStar : the for loop over the outgoing links of node i
RECURSIVE RelaxAStar(_, _, _, _, _, _, _)
RelaxAStar(nw, st, i, d, j, dest, fastest) ==
    IF j > Len(nw.out[i]) THEN st
    ELSE LET l  == nw.out[i][j]
             id == nw.links[l].to
         IN  IF id \in st.closed THEN RelaxAStar(nw, st, i, d, j + 1, dest, fastest)
             ELSE LET w_ij == FAdd(LinkCost(nw, l, fastest), d)
                      st2  == IF id \notin DOMAIN st.Qn \/ w_ij < st.g[id]
                              THEN LET f_score == FAdd(w_ij, EuclidianDistance(nw, id, dest))
                                   IN  [st EXCEPT
                                         !.prec = (id :> l) @@ st.prec,
                                         !.g    = (id :> w_ij) @@ st.g,
                                         !.Q    = IF id \in DOMAIN st.Qn
                                                  THEN DecreaseKey(st.Q, st.Qn[id], f_score)
                                                  ELSE HeapInsert(st.Q, id, f_score),
                                         !.Qn   = IF id \in DOMAIN st.Qn THEN st.Qn
                                                  ELSE (id :> NextHandle(st.Q)) @@ st.Qn]
                              ELSE st
                  IN  RelaxAStar(nw, st2, i, d, j + 1, dest, fastest)

\* computePathAStar : the main loop
RECURSIVE AStarLoop(_, _, _, _)
AStarLoop(nw, st, dest, fastest) ==
    IF st.curr = dest THEN st
    ELSE IF HeapMinimum(st.Q) = NULL THEN [st EXCEPT !.err = "no minimum element"]
    ELSE LET m    == HeapMinimum(st.Q)
             curr == st.Q.nodes[m].data
             st1  == [st EXCEPT !.curr = curr, !.closed = @ \cup {curr},
                                !.Q = DeleteMin(st.Q)]
             st2  == RelaxAStar(nw, st1, curr, st.g[curr], 1, dest, fastest)
         IN  AStarLoop(nw, st2, dest, fastest)

\* computePathAStar that swallows the exception of the empty open set and
\* returns the empty result
ComputePathAStarQuiet(nw, source, dest, fastest) ==
    IF source = dest THEN [path |-> << >>, err |-> NoErr]
    ELSE
    LET Q1  == HeapInsert(EmptyHeap, source, EuclidianDistance(nw, source, dest))
        st0 == [Q |-> Q1, Qn |-> (source :> 1), closed |-> {}, g |-> (source :> 0),
                prec |-> << >>, curr |-> source, err |-> NoErr]
        Finish(st) ==
            IF st.err # NoErr THEN [path |-> << >>, err |-> NoErr]
            ELSE Reconstruct(nw, st.prec, st.curr, source, << >>, nw.n)
    IN  Finish(AStarLoop(nw, st0, dest, fastest))

\* Network::computePathAStar(source_id, dest_id, fastest)
ComputePathAStar(nw, source, dest, fastest) ==
    IF source = dest THEN [path |-> << >>, err |-> NoErr]
    ELSE
    LET Q1  == HeapInsert(EmptyHeap, source, EuclidianDistance(nw, source, dest))
        st0 == [Q |-> Q1, Qn |-> (source :> 1), closed |-> {}, g |-> (source :> 0),
                prec |-> << >>, curr |-> source, err |-> NoErr]
        Finish(st) ==
            IF st.err # NoErr THEN [path |-> << >>, err |-> st.err]
            ELSE Reconstruct(nw, st.prec, st.curr, source, << >>, nw.n)
    IN  Finish(AStarLoop(nw, st0, dest, fastest))

\* a setter that writes the cost the flag does not select
SetLinkCostOther(nw, l, fastest, v) ==
    IF fastest THEN [nw EXCEPT !.links[l].len = v] ELSE [nw EXCEPT !.links[l].fft = v]

\* the network with the cost of link l overwritten (setFreeFlowTime / setLength)
SetLinkCost(nw, l, fastest, v) ==
    IF fastest THEN [nw EXCEPT !.links[l].fft = v] ELSE [nw EXCEPT !.links[l].len = v]

\* an edge-avoiding planner that raises the cost of the link by one unit only
ComputePathAvoidMild(nw, source, dest, avoid, fastest) ==
    LET init_data_link == LinkCost(nw, avoid, fastest)
        nwHigh == SetLinkCost(nw, avoid, fastest, init_data_link + 1)
        Restore(r) ==
            IF r.err # NoErr
            THEN [path |-> << >>, err |-> r.err, nw |-> nwHigh]
            ELSE [path |-> r.path, err |-> NoErr,
                  nw |-> SetLinkCost(nwHigh, avoid, fastest, init_data_link)]
    IN  Restore(ComputePathAStar(nwHigh, source, dest, fastest))

\* an edge-avoiding planner that plans on the costs as they are
ComputePathAvoidNoInflate(nw, source, dest, avoid, fastest) ==
    LET Keep(r) == [path |-> r.path, err |-> r.err, nw |-> nw]
    IN  Keep(ComputePathAStar(nw, source, dest, fastest))

\* Network::computePath(source_id, dest_id, link_id_to_avoid, fastest)
\* result [path, err, nw] : nw is the network the call leaves behind
ComputePathAvoid(nw, source, dest, avoid, fastest) ==
    LET init_data_link == LinkCost(nw, avoid, fastest)
        nwHigh == SetLinkCost(nw, avoid, fastest, HalfMax)
        Restore(r) ==
            IF r.err # NoErr
            THEN [path |-> << >>, err |-> r.err, nw |-> nwHigh]
            ELSE [path |-> r.path, err |-> NoErr,
                  nw |-> SetLinkCost(nwHigh, avoid, fastest, init_data_link)]
    IN  Restore(ComputePathAStar(nwHigh, source, dest, fastest))

(***************************************************************************)
(* PART III - Model : the tick loop on NProc workers                       *)
(*                                                                         *)
(* Times are kept in units of 1/TimeScale second; one tick is TimeScale    *)
(* units.  The clock _time counts whole seconds.  Positions are the        *)
(* partitioning coordinates multiplied by two, so that the strip centres   *)
(* p + 0.5 are the odd integers 2p + 1.                                    *)
(***************************************************************************)
(***************************************************************************)
(* State.                                                                  *)
(***************************************************************************)
VARIABLES
    agents,         \* per worker, the local agents of the SharedContext: id -> agent
    occ,            \* per worker, _n_agents of every link of its copy of the network
    time,           \* per worker, _time
    pc,             \* per worker, the position in the schedule
    walk,           \* per worker, the local agents the loop of step has still to visit
    toMove,         \* per worker, _map_agents_to_move_process
    moving,         \* per worker, _total_moving_agents
    tripsPerformed, \* per worker, _total_trips_performed
    rerouting,      \* per worker, _total_rerouting
    totalAgents,    \* per worker, _total_agents
    lastMut,        \* history: the last occupancy mutation <<worker, link, kind>>
    handledBy,      \* history: per agent, the workers that advanced it in this tick
    nTrans,         \* history: per agent, the transitions applied to it in this tick
    retired,        \* history: the agents removed at the end of their last trip
    lastEvent,      \* history: the last loop body executed, <<worker, agent, kind>>
    population,     \* history: the plans the initialisation read, id -> plan
    lastMigrated,   \* history: the agents the last synchronisation moved
    emptiedAt,      \* history: the tick in which the last agent was removed, or 0
    fitness,        \* per worker, _map_agent_fitness: id -> fitness, a fraction <<n, d>>
    samples,        \* history: per agent, the fitness samples of its completed trips
    snapshot,       \* per worker, _links_state_snapshot: <<link, slot>> -> count (0 if absent)
    moves,          \* per agent, the rows writeOutputsMoves wrote for it, in order
    heap,           \* a FibonacciHeap under test (Part I)
    hlog,           \* history of the heap under test
    other,          \* the FibonacciHeap handed to merge
    net,            \* the Network a planner is called on (_Nodes, _Links)
    plan,           \* history: the last planner or merge call, its arguments and outcome
    nodes           \* per worker, the _Nodes of the network under shuffle: id -> coordinates

engineVars == <<agents, occ, time, pc, walk, toMove, moving, tripsPerformed,
                rerouting, totalAgents, lastMut, handledBy, nTrans, retired, lastEvent,
                population, lastMigrated, emptiedAt, fitness, samples, snapshot, moves>>

heapVars == <<heap, hlog>>

planVars == <<other, net, plan, nodes>>

vars == <<engineVars, heapVars, planVars>>

NProc == 2

NAgents == 2

TimeScale == 100

TimeTolerance == 1

MaxTime == 130

CheckStart == 1

CheckPeriod == 100

\* the largest unsigned int, 2^32 - 1 in the code; the model checker's integers
\* stop at 2^31 - 1, which stands for it
UIntMax == 2147483647

Procs == 0 .. (NProc - 1)

AgentIds == 1 .. NAgents

\* The road network of the runs: a diamond 1 -> {2,3} -> 4 with the return 4 -> 1
MkLink(f, t, c, k) == [from |-> f, to |-> t, fft |-> c, len |-> c, cap |-> k]

Net ==
    [n     |-> 4,
     xd    |-> <<0, 1, 1, 2>>,
     yd    |-> <<0, 0, 1, 0>>,
     out   |-> << <<1, 2>>, <<3>>, <<4>>, <<5>> >>,
     links |-> << MkLink(1, 2, 2, 1), MkLink(1, 3, 1, 1), MkLink(2, 4, 1, 1),
                  MkLink(3, 4, 2, 2), MkLink(4, 1, 1, 1) >>]

NodeIds == 1 .. Net.n

LinkIds == 1 .. Len(Net.links)

\* Network::shuffleNodesCoordinates : the cur_node-th node gets (cur_node % n_proc + 0.5, 0.5)
NodeX2(n) == 2 * ((n - 1) % NProc) + 1

NodeY2(n) == 1

\* Model::isInLocalBounds on worker p, whose strip is [p, p+1] x [0, 1]
IsInLocalBounds(p, x2, y2) == 2 * p <= x2 /\ 2 * (p + 1) >= x2 /\ 0 <= y2 /\ 2 >= y2

\* Node(id, x, y) : the partitioning coordinates and the data coordinates
MkNode(x2, y2) == [x2 |-> x2, y2 |-> y2, xd2 |-> x2, yd2 |-> y2]

\* the loop of shuffleNodesCoordinates over the nodes todo of the map, in the
\* order of their ids, cur_node being the number of nodes already visited
RECURSIVE ShuffleFrom(_, _, _)
ShuffleFrom(ns, todo, cur_node) ==
    IF todo = {} THEN ns
    ELSE LET id        == MinOf(todo)
             node_proc == cur_node % NProc
         IN  ShuffleFrom([ns EXCEPT ![id] = [xd2 |-> ns[id].x2, yd2 |-> ns[id].y2,
                                              x2 |-> 2 * node_proc + 1, y2 |-> 1]],
                         todo \ {id}, cur_node + 1)

\* a shuffle that derives the worker from the id of the node
ShuffleNodesCoordinatesById(ns) ==
    [id \in DOMAIN ns |-> [xd2 |-> ns[id].x2, yd2 |-> ns[id].y2,
                           x2 |-> 2 * ((id - 1) % NProc) + 1, y2 |-> 1]]

\* Network::shuffleNodesCoordinates on the map ns of nodes
ShuffleNodesCoordinates(ns) == ShuffleFrom(ns, DOMAIN ns, 0)

\* a map that sends every node to worker 0
MapNodeProcessFirst(n) == 0

\* _map_node_process after constructMapNodeProcess
MapNodeProcess(n) == CHOOSE p \in Procs : IsInLocalBounds(p, NodeX2(n), NodeY2(n))

\* a travel time that ignores the agents on the link
TimeOnLinkFree(l, n) == net.links[l].fft * TimeScale

\* Link::timeOnLink with n agents on the link : fft * (1 + 0.15 * (n / cap)^4)
TimeOnLink(l, n) ==
    LET c4 == net.links[l].cap * net.links[l].cap * net.links[l].cap * net.links[l].cap
        n4 == n * n * n * n
    IN  (net.links[l].fft * TimeScale * (100 * c4 + 15 * n4)) \div (100 * c4)

\* a counter that counts every entry twice, and one that is never decremented
IncreaseAgentsTwice(n) == n + 2

KeepAgents(n) == n

\* Link::increaseAgents / Link::decrementAgents on an unsigned int
IncreaseAgents(n) == IF n = UIntMax THEN 0 ELSE n + 1

DecrementAgents(n) == IF n = 0 THEN UIntMax ELSE n - 1

\* Strategy() and Strategy(alpha, theta); cos and sin are kept as integers
NoStrategy == [cosA |-> 0, sinA |-> 0, theta |-> 0, optimized |-> FALSE]

MkStrategy(c, s, th) == [cosA |-> c, sinA |-> s, theta |-> th, optimized |-> TRUE]

\* a rule that also fires when the weighted sum equals the threshold
ComputeStrategyNonStrict(st, n1, d1, n2, d2) ==
    n1 * d2 * st.cosA + n2 * d1 * st.sinA - st.theta * d1 * d2 >= 0

\* Strategy::computeStrategy on x1 = n1/d1 and x2 = n2/d2 (d1, d2 > 0)
ComputeStrategy(st, n1, d1, n2, d2) ==
    n1 * d2 * st.cosA + n2 * d1 * st.sinA - st.theta * d1 * d2 > 0

\* Trip(origin, destination, starting time), the starting time being s seconds
\* and f units of 1/TimeScale s
MkTripAt(o, d, s, f) == [o |-> o, d |-> d, start |-> s, frac |-> f]

\* a trip that starts on a full second
MkTrip(o, d, s) == MkTripAt(o, d, s, 0)

\* Trip::getStartingTime, in units of 1/TimeScale s
StartingTime(trip) == trip.start * TimeScale + trip.frac

\* a predicate that never rules in favour of rerouting
IsReroutingNever(a, occp, t) == FALSE

\* Individual::isRerouting
IsRerouting(a, occp, t) ==
    LET start == StartingTime(Head(a.trips))
        n1 == IF a.dtheo > 0 THEN t * TimeScale - start ELSE 0
        d1 == IF a.dtheo > 0 THEN a.dtheo * TimeScale ELSE 1
        n2 == occp[a.cur_link]
        d2 == net.links[a.cur_link].cap
    IN  IF n2 > 0 THEN ComputeStrategy(a.strat, n1, d1, n2, d2) ELSE FALSE

\* The populations of the runs: each agent gets one of these plans
AgentConfigs ==
    { [trips |-> << MkTrip(4, 1, 0) >>,                  strat |-> NoStrategy],
      [trips |-> << MkTrip(1, 4, 1) >>,                  strat |-> MkStrategy(0, 1, 0)],
      [trips |-> << MkTrip(1, 2, 0), MkTrip(4, 1, 1) >>, strat |-> NoStrategy],
      [trips |-> << MkTrip(2, 3, 2) >>,                  strat |-> MkStrategy(1, 0, 0)],
      [trips |-> << MkTrip(3, 4, 1), MkTrip(4, 1, 9) >>, strat |-> MkStrategy(1, 1, 1)] }

\* Individual(id, trips) followed by compute_initial_paths and init_agents_strategies
InitialAgent(id, cfg) ==
    LET t0 == Head(cfg.trips)
    IN  [id |-> id, trips |-> cfg.trips,
         x2 |-> NodeX2(t0.o), y2 |-> NodeY2(t0.o),
         rem |-> StartingTime(t0),
         strat |-> cfg.strat,
         path |-> ComputePathAStar(net, t0.o, t0.d, TRUE).path,
         en_route |-> FALSE, at_node |-> TRUE, cur_link |-> 0,
         dtheo |-> 0, npath |-> 1, nlink |-> 0]

\* decreaseRemainingTime without the max with 0
DecreaseUnclamped(a, dt) == [a EXCEPT !.rem = a.rem - dt]

\* Individual::decreaseRemainingTime
DecreaseRemainingTime(a, dt) == [a EXCEPT !.rem = IF a.rem - dt > 0 THEN a.rem - dt ELSE 0]

\* getNextLinkAndRemove that erases the front of the path instead of its back
GetNextLinkAndRemoveFront(a) ==
    [a EXCEPT !.path = Tail(a.path), !.nlink = @ + 1]

\* Individual::getNextLinkAndRemove : the agent afterwards (the link is the old path.back())
GetNextLinkAndRemove(a) ==
    [a EXCEPT !.path = SubSeq(a.path, 1, Len(a.path) - 1), !.nlink = @ + 1]

\* setNextTrip that leaves the agent en route while it waits for its next trip
SetNextTripEnRoute(a, t) ==
    LET trips2 == Tail(a.trips)
        nt     == Head(trips2)
    IN  [a EXCEPT !.trips = trips2,
                  !.path = ComputePath(net, nt.o, nt.d, TRUE).path,
                  !.x2 = NodeX2(nt.o), !.y2 = NodeY2(nt.o),
                  !.at_node = TRUE,
                  !.dtheo = 0,
                  !.rem = IF StartingTime(nt) - t * TimeScale > 0
                          THEN StartingTime(nt) - t * TimeScale ELSE 0,
                  !.npath = @ + 1, !.nlink = 0]

\* Individual::setNextTrip
SetNextTrip(a, t) ==
    LET trips2 == Tail(a.trips)
        nt     == Head(trips2)
    IN  [a EXCEPT !.trips = trips2,
                  !.path = ComputePath(net, nt.o, nt.d, TRUE).path,
                  !.x2 = NodeX2(nt.o), !.y2 = NodeY2(nt.o),
                  !.en_route = FALSE, !.at_node = TRUE,
                  !.dtheo = 0,
                  !.rem = IF StartingTime(nt) - t * TimeScale > 0
                          THEN StartingTime(nt) - t * TimeScale ELSE 0,
                  !.npath = @ + 1, !.nlink = 0]

\* Model::providePackage : the IndividualPackage built from an agent
ProvidePackage(a, dest) ==
    [id |-> a.id, cur_proc |-> dest, trips |-> a.trips, x |-> a.x2, y |-> a.y2,
     remaining_time |-> a.rem, strategy |-> a.strat, path |-> a.path,
     en_route |-> a.en_route, at_node |-> a.at_node, cur_link |-> a.cur_link,
     cur_trip_duration_theo |-> a.dtheo, n_path_performed |-> a.npath,
     n_link_in_path |-> a.nlink]

\* createAgent that gives every agent it builds the id 1
CreateAgentFirstId(pk) ==
    [id |-> 1, trips |-> pk.trips, x2 |-> pk.x, y2 |-> pk.y,
     rem |-> pk.remaining_time, strat |-> pk.strategy, path |-> pk.path,
     en_route |-> pk.en_route, at_node |-> pk.at_node, cur_link |-> pk.cur_link,
     dtheo |-> pk.cur_trip_duration_theo, npath |-> pk.n_path_performed,
     nlink |-> pk.n_link_in_path]

\* createAgent that hands every agent it builds a strategy of its own
CreateAgentStrategic(pk) ==
    [id |-> pk.id, trips |-> pk.trips, x2 |-> pk.x, y2 |-> pk.y,
     rem |-> pk.remaining_time, strat |-> MkStrategy(0, 1, 0), path |-> pk.path,
     en_route |-> pk.en_route, at_node |-> pk.at_node, cur_link |-> pk.cur_link,
     dtheo |-> pk.cur_trip_duration_theo, npath |-> pk.n_path_performed,
     nlink |-> pk.n_link_in_path]

\* Model::createAgent : the agent built from an IndividualPackage
CreateAgent(pk) ==
    [id |-> pk.id, trips |-> pk.trips, x2 |-> pk.x, y2 |-> pk.y,
     rem |-> pk.remaining_time, strat |-> pk.strategy, path |-> pk.path,
     en_route |-> pk.en_route, at_node |-> pk.at_node, cur_link |-> pk.cur_link,
     dtheo |-> pk.cur_trip_duration_theo, npath |-> pk.n_path_performed,
     nlink |-> pk.n_link_in_path]

\* the orders in which a set of agents can be enumerated
Orderings(S) ==
    {w \in [1 .. Cardinality(S) -> S] : \A i, j \in DOMAIN w : w[i] = w[j] => i = j}

\* a walk that misses the agent localBegin() points to
LocalWalksSkipFirst(S) == {Tail(w) : w \in Orderings(S) \ {<< >>}} \cup ({<< >>} \cap Orderings(S))

\* Model::step : the walks from localBegin() to localEnd() over the local agents S;
\* the context iterates in an order of its own
LocalWalks(S) == Orderings(S)

RECURSIVE SumOver(_, _)
SumOver(f, S) == IF S = {} THEN 0
                 ELSE LET x == CHOOSE y \in S : TRUE IN f[x] + SumOver(f, S \ {x})

(***************************************************************************)
(* Model::step, the body of the loop for one local agent.  Each of the     *)
(* three operators below returns                                           *)
(*   agent  : the agent afterwards                                         *)
(*   occ    : the worker's link occupancies afterwards                     *)
(*   remove : remove_agent                                                 *)
(*   flag   : <<q>> for the worker q entered in _map_agents_to_move_process *)
(*   dMov, dTrips, dRer : changes of the worker's aggregate counters       *)
(*   mut    : the occupancy mutation performed, <<link, "inc" | "dec">>    *)
(*   kind   : the transition applied                                       *)
(*   abort  : an exception left the handler                                *)
(***************************************************************************)
NoFlag == << >>

\* Model::step, "Agent is at a node -> preparing to move to the next one"
DepartNode(p, a, occp, t) ==
    LET a2       == [a EXCEPT !.en_route = TRUE, !.at_node = FALSE]
        id_next0 == a2.path[Len(a2.path)]
        a3       == [GetNextLinkAndRemove(a2) EXCEPT !.cur_link = id_next0]
        rer      == a3.strat.optimized /\ IsRerouting(a3, occp, t)
        cur_node == net.links[a3.cur_link].from
        replaced == rer /\ Len(net.out[cur_node]) > 1
        Aborted  == [agent |-> a, occ |-> occp, remove |-> FALSE, flag |-> NoFlag,
                     dMov |-> 0, dTrips |-> 0, dRer |-> 0, mut |-> << >>,
                     kind |-> "abort", abort |-> TRUE]
        \* the rest of the branch, the agent a4 being on its link
        Enter(a4) ==
            [agent |-> [a4 EXCEPT !.dtheo = @ + net.links[a4.cur_link].fft,
                                  !.rem = TimeOnLink(a4.cur_link, occp[a4.cur_link])],
             occ |-> [occp EXCEPT ![a4.cur_link] = IncreaseAgents(@)],
             remove |-> FALSE, flag |-> NoFlag,
             dMov |-> IF a.en_route THEN 0 ELSE 1, dTrips |-> 0,
             dRer |-> IF rer THEN 1 ELSE 0,
             mut |-> <<a4.cur_link, "inc">>,
             kind |-> IF replaced THEN "reroute" ELSE "depart", abort |-> FALSE]
        \* the new path np replaces the current one and its last link is taken
        Replace(np) ==
            IF np.err # NoErr \/ np.path = << >> THEN Aborted
            ELSE Enter([GetNextLinkAndRemove([a3 EXCEPT !.path = np.path])
                          EXCEPT !.cur_link = np.path[Len(np.path)]])
    IN  IF a.path = << >> THEN Aborted
        ELSE IF replaced
        THEN Replace(ComputePathAvoid(net, cur_node, Head(a3.trips).d, id_next0, TRUE))
        ELSE Enter(a3)

\* an arrival that moves and flags the agent but leaves it counted on its link
ArriveNodeKeepsLink(p, a, occp, t) ==
    [agent |-> [a EXCEPT !.x2 = NodeX2(net.links[a.cur_link].to),
                         !.y2 = NodeY2(net.links[a.cur_link].to), !.at_node = TRUE],
     occ |-> occp, remove |-> FALSE,
     flag |-> IF ~IsInLocalBounds(p, NodeX2(net.links[a.cur_link].to),
                                     NodeY2(net.links[a.cur_link].to))
              THEN <<MapNodeProcess(net.links[a.cur_link].to)>> ELSE NoFlag,
     dMov |-> 0, dTrips |-> 0, dRer |-> 0,
     mut |-> << >>, kind |-> "arrive", abort |-> FALSE]

\* Model::step, "Moving to next node if not the final one of current trip"
ArriveNode(p, a, occp, t) ==
    LET id_prev_link == a.cur_link
        id_new_node  == net.links[id_prev_link].to
        a2 == [a EXCEPT !.x2 = NodeX2(id_new_node), !.y2 = NodeY2(id_new_node),
                        !.at_node = TRUE]
    IN  [agent |-> a2,
         occ |-> [occp EXCEPT ![id_prev_link] = DecrementAgents(@)],
         remove |-> FALSE,
         flag |-> IF ~IsInLocalBounds(p, a2.x2, a2.y2)
                  THEN <<MapNodeProcess(id_new_node)>> ELSE NoFlag,
         dMov |-> 0, dTrips |-> 0, dRer |-> 0,
         mut |-> <<id_prev_link, "dec">>, kind |-> "arrive", abort |-> FALSE]

\* an end of trip that removes the agent whatever trips it still has
EndTripRemovesEarly(p, a, occp, t) ==
    [agent |-> a, occ |-> [occp EXCEPT ![a.cur_link] = DecrementAgents(@)],
     remove |-> TRUE, flag |-> NoFlag,
     dMov |-> -1, dTrips |-> 1, dRer |-> 0,
     mut |-> <<a.cur_link, "dec">>, kind |-> "endtrip", abort |-> FALSE]

\* Model::step, "Agent reached end of current trip"
EndTrip(p, a, occp, t) ==
    LET occ2 == [occp EXCEPT ![a.cur_link] = DecrementAgents(@)]
        more == Len(a.trips) > 1
        \* the exception computePath throws inside setNextTrip, if any
        thrown == IF more
                  THEN ComputePath(net, a.trips[2].o, a.trips[2].d, TRUE).err
                  ELSE NoErr
        Close(a2) ==
            [agent |-> a2, occ |-> occ2,
             remove |-> ~more,
             flag |-> IF more /\ ~IsInLocalBounds(p, a2.x2, a2.y2)
                      THEN <<MapNodeProcess(Head(a2.trips).o)>> ELSE NoFlag,
             dMov |-> -1, dTrips |-> 1, dRer |-> 0,
             mut |-> <<a.cur_link, "dec">>, kind |-> "endtrip", abort |-> FALSE]
    IN  IF thrown # NoErr
        THEN [agent |-> a, occ |-> occp, remove |-> FALSE, flag |-> NoFlag,
              dMov |-> 0, dTrips |-> 0, dRer |-> 0, mut |-> << >>,
              kind |-> "abort", abort |-> TRUE]
        ELSE Close(IF more THEN SetNextTrip(a, t) ELSE a)

\* the greatest common divisor of two naturals, not both 0
RECURSIVE GCD(_, _)
GCD(a, b) == IF b = 0 THEN a ELSE GCD(b, a % b)

\* the fraction n/d in lowest terms (n >= 0, d > 0)
Frac(n, d) == <<n \div GCD(n, d), d \div GCD(n, d)>>

\* a sample that divides the simulated duration by the theoretical one
FitnessSampleInverse(a, t) ==
    Frac(t * TimeScale - StartingTime(Head(a.trips)), a.dtheo * TimeScale)

\* Model::step, "Computing its fitness" : trip_duration_teo / trip_duration_sim
FitnessSample(a, t) ==
    Frac(a.dtheo * TimeScale, t * TimeScale - StartingTime(Head(a.trips)))

\* Model::step, "update fitness" on the map m of the worker
UpdateFitness(m, id, smp) ==
    IF id \notin DOMAIN m THEN (id :> smp) @@ m
    ELSE [m EXCEPT ![id] = Frac(m[id][1] * smp[2] + smp[1] * m[id][2], 2 * m[id][2] * smp[2])]

\* Model::step, the call of writeOutputsMoves : the row written for agent a, which
\* has entered its link at clock t (agent id | link id | time entering the link |
\* time on link | path id | link on path)
OutputsMove(a, t) ==
    [link |-> a.cur_link, time |-> t, time_on_link |-> a.rem,
     path_id |-> a.npath, link_on_path |-> a.nlink]

\* a loop body that takes an agent for due a whole tick before its time
AgentStepEarly(p, a0, occp, t) ==
    LET a == DecreaseRemainingTime(a0, TimeScale)
    IN  IF a.rem <= TimeTolerance + TimeScale
        THEN IF a.at_node THEN DepartNode(p, a, occp, t)
             ELSE IF Len(a.path) > 0 THEN ArriveNode(p, a, occp, t)
             ELSE EndTrip(p, a, occp, t)
        ELSE [agent |-> a, occ |-> occp, remove |-> FALSE, flag |-> NoFlag,
              dMov |-> 0, dTrips |-> 0, dRer |-> 0, mut |-> << >>,
              kind |-> "none", abort |-> FALSE]

\* Model::step, the loop body: decrease the remaining time, then dispatch
AgentStep(p, a0, occp, t) ==
    LET a == DecreaseRemainingTime(a0, TimeScale)
    IN  IF a.rem <= TimeTolerance
        THEN IF a.at_node THEN DepartNode(p, a, occp, t)
             ELSE IF Len(a.path) > 0 THEN ArriveNode(p, a, occp, t)
             ELSE EndTrip(p, a, occp, t)
        ELSE [agent |-> a, occ |-> occp, remove |-> FALSE, flag |-> NoFlag,
              dMov |-> 0, dTrips |-> 0, dRer |-> 0, mut |-> << >>,
              kind |-> "none", abort |-> FALSE]

\* the agents of worker p
LocalIds(p) == DOMAIN agents[p]

\* the count of worker 0 alone, without the all_reduce
RemainingAgentsLocal == Cardinality(LocalIds(0))

\* checkStop : remaining_agents_total, the all_reduce of agents->size()
RemainingAgentsTotal == SumOver([p \in Procs |-> Cardinality(LocalIds(p))], Procs)

\* the history of the heap under test:
\*   op        : the last operation applied
\*   run       : the last two keys (or fewer) that minimum / deletemin produced
\*               since the last insert or decreaseKey
\*   extracted : the handles deletemin removed, in order
\*   nDec      : the number of calls of decreaseKey
\*   cuts      : the largest number of nodes one decreaseKey moved to the roots
NoHeapLog == [op |-> "none", run |-> << >>, extracted |-> << >>,
              nDec |-> 0, cuts |-> 0]

\* the run r of produced keys extended by key k
Produced(r, k) == IF r = << >> THEN <<k>> ELSE <<r[Len(r)], k>>

HeapIdle == heap = EmptyHeap /\ hlog = NoHeapLog

\* no network is under shuffle
NoNodes == << >>

\* no planner was called yet
NoPlan == [kind |-> "none"]

\* the planners and merge at rest, on the network of the runs
PlanIdle == other = EmptyHeap /\ net = Net /\ plan = NoPlan /\ nodes = NoNodes

\* the agents created by init_matsim / init_transims on worker p for population pop
CreatedOn(p, pop) ==
    {i \in DOMAIN pop :
        IsInLocalBounds(p, NodeX2(Head(pop[i].trips).o), NodeY2(Head(pop[i].trips).o))}

\* the engine after the initialisation has read the population pop
EngineStart(pop) ==
    /\ agents = [p \in Procs |->
                   [i \in CreatedOn(p, pop) |-> InitialAgent(i, pop[i])]]
    /\ population = pop
    /\ lastMigrated = {}
    /\ emptiedAt = 0
    /\ fitness = [p \in Procs |-> << >>]
    /\ samples = [i \in AgentIds |-> << >>]
    /\ snapshot = [p \in Procs |-> << >>]
    /\ moves = [i \in AgentIds |-> << >>]
    /\ occ = [p \in Procs |-> [l \in LinkIds |-> 0]]
    /\ time = [p \in Procs |-> 0]
    /\ pc = [p \in Procs |-> "idle"]
    /\ walk = [p \in Procs |-> << >>]
    /\ toMove = [p \in Procs |-> << >>]
    /\ moving = [p \in Procs |-> 0]
    /\ tripsPerformed = [p \in Procs |-> 0]
    /\ rerouting = [p \in Procs |-> 0]
    /\ totalAgents = [p \in Procs |-> 0]
    /\ lastMut = << >>
    /\ handledBy = [i \in AgentIds |-> << >>]
    /\ nTrans = [i \in AgentIds |-> 0]
    /\ retired = {}
    /\ lastEvent = << >>

Init ==
    /\ HeapIdle
    /\ PlanIdle
    /\ \E n \in AgentIds : \E pop \in [1 .. n -> AgentConfigs] : EngineStart(pop)

\* the seconds and the minutes of a day
DaySeconds == 86400

DayMinutes == 1440

\* Model::step : the test that makes a tick a snapshot tick
IsSnapshotTick(t, interval) == t % (interval * 60) = 0

\* Model::step : the snapshot slot at clock t
SnapshotInterval(t, interval) ==
    LET slot == t \div (interval * 60)
    IN  IF t > DaySeconds THEN slot % (DayMinutes \div interval) ELSE slot

\* par.record_interval_snapshot of the engine runs, in minutes
SnapshotMinutes == 1

\* the entry of link l and slot k in the snapshot map m of a worker
SnapshotCount(m, l, k) == IF <<l, k>> \in DOMAIN m THEN m[<<l, k>>] ELSE 0

\* Model::step, "Snapshot of the links state" : the scan of the local agents as
\* that adds one to slot k of the current link of every agent that is en route
TakeSnapshot(m, as, k) ==
    LET Hit(l) == {i \in DOMAIN as : as[i].en_route /\ as[i].cur_link = l}
        ls     == {l \in LinkIds : Hit(l) # {}}
    IN  [e \in DOMAIN m \cup {<<l, k>> : l \in ls} |->
            SnapshotCount(m, e[1], e[2])
              + (IF e[2] = k THEN Cardinality(Hit(e[1])) ELSE 0)]

\* Model::step up to the main loop: clear the migration map, advance the clock
BeginStep(p) ==
    /\ pc[p] = "idle"
    /\ time[p] < MaxTime
    /\ toMove' = [toMove EXCEPT ![p] = << >>]
    /\ time' = [time EXCEPT ![p] = @ + 1]
    /\ \E w \in LocalWalks(LocalIds(p)) : walk' = [walk EXCEPT ![p] = w]
    /\ pc' = [pc EXCEPT ![p] = "walk"]
    /\ UNCHANGED <<agents, occ, moving, tripsPerformed, rerouting, totalAgents,
                   lastMut, handledBy, nTrans, retired, lastEvent,
                   population, lastMigrated, emptiedAt, fitness, samples, snapshot, moves,
                   heapVars, planVars>>

\* Model::step, one iteration of the main loop (and the removal that follows it)
AgentEvent(p) ==
    /\ pc[p] = "walk"
    /\ walk[p] # << >>
    /\ \E id \in {Head(walk[p])} :
       \E r \in {AgentStep(p, agents[p][id], occ[p], time[p])} :
           IF r.abort
           THEN /\ pc' = [pc EXCEPT ![p] = "aborted"]
                /\ lastEvent' = <<p, id, r.kind>>
                /\ UNCHANGED <<agents, occ, walk, toMove, moving, tripsPerformed,
                               rerouting, lastMut, handledBy, nTrans, retired,
                               emptiedAt, fitness, samples, moves>>
           ELSE /\ agents' = [agents EXCEPT ![p] =
                                IF r.remove
                                THEN [i \in LocalIds(p) \ {id} |-> agents[p][i]]
                                ELSE [agents[p] EXCEPT ![id] = r.agent]]
                /\ occ' = [occ EXCEPT ![p] = r.occ]
                /\ walk' = [walk EXCEPT ![p] = Tail(@)]
                /\ toMove' = IF r.flag = NoFlag THEN toMove
                             ELSE [toMove EXCEPT ![p] = (id :> r.flag[1]) @@ @]
                /\ moving' = [moving EXCEPT ![p] = @ + r.dMov]
                /\ tripsPerformed' = [tripsPerformed EXCEPT ![p] = @ + r.dTrips]
                /\ rerouting' = [rerouting EXCEPT ![p] = @ + r.dRer]
                /\ lastMut' = IF r.mut = << >> THEN << >> ELSE <<p>> \o r.mut
                /\ handledBy' = [handledBy EXCEPT ![id] = Append(@, p)]
                /\ nTrans' = [nTrans EXCEPT ![id] = @ + (IF r.kind = "none" THEN 0 ELSE 1)]
                /\ retired' = IF r.remove THEN retired \cup {id} ELSE retired
                /\ emptiedAt' = IF r.remove /\ RemainingAgentsTotal = 1
                                THEN time[p] ELSE emptiedAt
                /\ fitness' = IF r.kind = "endtrip"
                              THEN [fitness EXCEPT ![p] =
                                      UpdateFitness(@, id, FitnessSample(agents[p][id], time[p]))]
                              ELSE fitness
                /\ samples' = IF r.kind = "endtrip"
                              THEN [samples EXCEPT ![id] =
                                      Append(@, FitnessSample(agents[p][id], time[p]))]
                              ELSE samples
                /\ moves' = IF r.kind \in {"depart", "reroute"}
                            THEN [moves EXCEPT ![id] = Append(@, OutputsMove(r.agent, time[p]))]
                            ELSE moves
                /\ lastEvent' = <<p, id, r.kind>>
                /\ pc' = pc
    /\ UNCHANGED <<time, totalAgents, population, lastMigrated, snapshot, heapVars, planVars>>

\* Model::step after the main loop: take the snapshot of the links state, record
\* the aggregates, reach synch_agents
EndWalk(p) ==
    /\ pc[p] = "walk"
    /\ walk[p] = << >>
    /\ totalAgents' = [totalAgents EXCEPT ![p] = Cardinality(LocalIds(p))]
    /\ pc' = [pc EXCEPT ![p] = "sync"]
    /\ lastMut' = << >>
    /\ lastEvent' = << >>
    /\ snapshot' = IF IsSnapshotTick(time[p], SnapshotMinutes)
                   THEN [snapshot EXCEPT ![p] =
                           TakeSnapshot(@, agents[p],
                                        SnapshotInterval(time[p], SnapshotMinutes))]
                   ELSE snapshot
    /\ UNCHANGED <<agents, occ, time, walk, toMove, moving, tripsPerformed, rerouting,
                   handledBy, nTrans, retired, population, lastMigrated, emptiedAt,
                   fitness, samples, moves, heapVars, planVars>>

\* the packages worker q receives: one per (agent, q) of a map of another worker
Incoming(q) ==
    { ProvidePackage(agents[p][i], q) :
        <<p, i>> \in { pi \in Procs \X AgentIds :
                         /\ pi[2] \in DOMAIN toMove[pi[1]]
                         /\ pi[2] \in LocalIds(pi[1])
                         /\ toMove[pi[1]][pi[2]] = q } }

\* the local agents of worker p after the exchange
AfterSynch(p) ==
    LET stay == {i \in LocalIds(p) : i \notin DOMAIN toMove[p]}
        inc  == { CreateAgent(pk) : pk \in Incoming(p) }
        ids  == stay \cup { a.id : a \in inc }
    IN  [i \in ids |-> IF i \in stay THEN agents[p][i]
                       ELSE CHOOSE a \in inc : a.id = i]

\* a schedule that runs checkStop once, at 1.1
IsFirstCheckTick(t) == t = CheckStart

\* when checkStop is scheduled: at 1.1, 101.1, 201.1, ...
IsCheckTick(t) == t >= CheckStart /\ (t - CheckStart) % CheckPeriod = 0

\* Model::synch_agents, the collective that ends the tick on every worker
SynchAgents ==
    /\ \A p \in Procs : pc[p] = "sync"
    /\ agents' = [p \in Procs |-> AfterSynch(p)]
    /\ pc' = [p \in Procs |-> IF IsCheckTick(time[p]) THEN "check" ELSE "idle"]
    /\ handledBy' = [i \in AgentIds |-> << >>]
    /\ nTrans' = [i \in AgentIds |-> 0]
    /\ lastMigrated' = UNION {LocalIds(p) \cap DOMAIN toMove[p] : p \in Procs}
    /\ UNCHANGED <<occ, time, walk, toMove, moving, tripsPerformed, rerouting,
                   totalAgents, lastMut, retired, lastEvent, population, emptiedAt,
                   fitness, samples, snapshot, moves, heapVars, planVars>>

\* Model::checkStop, the all_reduce of the local agent counts
CheckStop ==
    /\ \A p \in Procs : pc[p] = "check"
    /\ pc' = [p \in Procs |-> IF RemainingAgentsTotal = 0 THEN "stopped" ELSE "idle"]
    /\ UNCHANGED <<agents, occ, time, walk, toMove, moving, tripsPerformed, rerouting,
                   totalAgents, lastMut, handledBy, nTrans, retired, lastEvent,
                   population, lastMigrated, emptiedAt, fitness, samples, snapshot, moves,
                   heapVars, planVars>>

(***************************************************************************)
(* The heap under test: a client that calls insert, minimum, deletemin and *)
(* decreaseKey in any order, on the handles insert returned.               *)
(***************************************************************************)
MaxHeapNodes == 4

MaxKey == 1

MaxDecreases == 2

PrefillSize == 9

\* the heap after n calls insert(i, 1), i = 1 .. n
RECURSIVE InsertMany(_)
InsertMany(n) == IF n = 0 THEN EmptyHeap ELSE HeapInsert(InsertMany(n - 1), n, 1)

\* a heap that received PrefillSize insertions and one deletemin: its entries
\* are consolidated into trees
Prefilled == DeleteMin(InsertMany(PrefillSize))

Handles == 1 .. Len(heap.nodes)

\* the nodes one reaches from node set S by next and child pointers
RECURSIVE Closure(_, _)
Closure(ns, S) ==
    LET T == S \cup {ns[x].next : x \in S} \cup ({ns[x].child : x \in S} \ {NULL})
    IN  IF T = S THEN S ELSE Closure(ns, T)

\* the entries of heap h : what is reachable from rootWithMinKey
Members(h) == IF h.min = NULL THEN {} ELSE Closure(h.nodes, {h.min})

\* the root list of heap h
Roots(h) == {n \in Members(h) : h.nodes[n].parent = NULL}

NotExtracted == {n \in Handles : \A i \in DOMAIN hlog.extracted : hlog.extracted[i] # n}

\* the engine at rest, while the heap is exercised
EngineIdle ==
    /\ agents = [p \in Procs |-> << >>]
    /\ occ = [p \in Procs |-> [l \in LinkIds |-> 0]]
    /\ time = [p \in Procs |-> 0]
    /\ pc = [p \in Procs |-> "stopped"]
    /\ walk = [p \in Procs |-> << >>]
    /\ toMove = [p \in Procs |-> << >>]
    /\ moving = [p \in Procs |-> 0]
    /\ tripsPerformed = [p \in Procs |-> 0]
    /\ rerouting = [p \in Procs |-> 0]
    /\ totalAgents = [p \in Procs |-> 0]
    /\ lastMut = << >>
    /\ handledBy = [i \in AgentIds |-> << >>]
    /\ nTrans = [i \in AgentIds |-> 0]
    /\ retired = {}
    /\ lastEvent = << >>
    /\ population = << >>
    /\ lastMigrated = {}
    /\ emptiedAt = 0
    /\ fitness = [p \in Procs |-> << >>]
    /\ samples = [i \in AgentIds |-> << >>]
    /\ snapshot = [p \in Procs |-> << >>]
    /\ moves = [i \in AgentIds |-> << >>]

\* the client starts on an empty heap or on the consolidated one
InitHeap ==
    /\ EngineIdle
    /\ PlanIdle
    /\ \/ HeapIdle
       \/ /\ heap = Prefilled
          /\ hlog = [NoHeapLog EXCEPT !.op = "deletemin", !.run = <<1>>,
                                      !.extracted = <<InsertMany(PrefillSize).min>>]

\* PNode insert(Data d, Key k) : the data is the rank of the insertion
HInsert(k) ==
    /\ Len(heap.nodes) < MaxHeapNodes
    /\ heap' = HeapInsert(heap, NextHandle(heap), k)
    /\ hlog' = [hlog EXCEPT !.op = "insert", !.run = << >>]
    /\ UNCHANGED <<engineVars, planVars>>

\* PNode minimum() const
HMinimum ==
    /\ heap' = [heap EXCEPT !.err = IF HeapMinimum(heap) = NULL
                                    THEN "no minimum element" ELSE NoErr]
    /\ hlog' = IF HeapMinimum(heap) = NULL
               THEN [hlog EXCEPT !.op = "minimum"]
               ELSE [hlog EXCEPT !.op = "minimum",
                                 !.run = Produced(@, heap.nodes[HeapMinimum(heap)].key)]
    /\ UNCHANGED <<engineVars, planVars>>

\* void deletemin()
HDeleteMin ==
    /\ heap' = DeleteMin(heap)
    /\ hlog' = IF heap.min = NULL
               THEN [hlog EXCEPT !.op = "deletemin"]
               ELSE [hlog EXCEPT !.op = "deletemin",
                                 !.run = Produced(@, heap.nodes[heap.min].key),
                                 !.extracted = Append(@, heap.min)]
    /\ UNCHANGED <<engineVars, planVars>>

\* void decreaseKey(PNode node, Key newKey) on a handle still in the heap
HDecreaseKey(node, k) ==
    /\ node \in NotExtracted
    /\ hlog.nDec < MaxDecreases
    /\ heap' = DecreaseKey(heap, node, k)
    /\ hlog' = [hlog EXCEPT !.op = "decreaseKey", !.run = << >>,
                            !.nDec = @ + 1,
                            !.cuts = MaxOf({@, Cardinality(Roots(heap'))
                                               - Cardinality(Roots(heap))})]
    /\ UNCHANGED <<engineVars, planVars>>

\* the longest sequence of insertions that builds an operand of merge
MaxMergeLen == 2

\* the heap after insert(1, keys[1]), insert(2, keys[2]), ...
RECURSIVE BuildHeap(_)
BuildHeap(keys) ==
    IF keys = << >> THEN EmptyHeap
    ELSE HeapInsert(BuildHeap(SubSeq(keys, 1, Len(keys) - 1)), Len(keys), keys[Len(keys)])

\* the operands of merge: heaps built by insertions, as they are or after one
\* deletemin (which consolidates them, or empties a heap of one entry)
MergeHeaps ==
    LET built == {BuildHeap(ks) :
                    ks \in UNION {[1 .. n -> 0 .. MaxKey] : n \in 0 .. MaxMergeLen}}
    IN  built \cup {DeleteMin(h) : h \in built \ {EmptyHeap}}

InitMerge ==
    /\ EngineIdle
    /\ hlog = NoHeapLog
    /\ net = Net
    /\ plan = NoPlan
    /\ nodes = NoNodes
    /\ heap \in MergeHeaps
    /\ other \in MergeHeaps

\* void merge(const FibonacciHeap& other)
HMerge ==
    /\ plan = NoPlan
    /\ \E r \in Merge(heap, other) : heap' = r
    /\ plan' = [kind |-> "merge", before |-> heap]
    /\ UNCHANGED <<engineVars, hlog, other, net, nodes>>

SpecMerge == InitMerge /\ [][HMerge]_vars

NextHeap ==
    \/ \E k \in 0 .. MaxKey : HInsert(k)
    \/ HMinimum
    \/ HDeleteMin
    \/ \E n \in Handles, k \in 0 .. MaxKey : HDecreaseKey(n, k)

SpecHeap == InitHeap /\ [][NextHeap]_vars

(***************************************************************************)
(* The planners under test: one call of a planner on a network drawn from  *)
(* a family of small road networks.                                        *)
(***************************************************************************)
\* the largest x coordinate of a node
MaxCoord == 6

\* the free-flow times (and lengths) of the links of the family, all of them
\* far below the inflated cost HalfMax of an avoided link
PlanCosts == {1, 2, 4}

\* the diamond 1 -> {2,3} -> 4, with the return 4 -> 1 when ret holds; link i
\* has free-flow time c[i] and length c[5 - i], node 2 lies at (x, 0)
MkNet(c, x, ret) ==
    [n     |-> 4,
     xd    |-> <<0, x, 1, 2>>,
     yd    |-> <<0, 0, 1, 0>>,
     out   |-> << <<1, 2>>, <<3>>, <<4>>, IF ret THEN <<5>> ELSE << >> >>,
     links |-> << [from |-> 1, to |-> 2, fft |-> c[1], len |-> c[4], cap |-> 1],
                  [from |-> 1, to |-> 3, fft |-> c[2], len |-> c[3], cap |-> 1],
                  [from |-> 2, to |-> 4, fft |-> c[3], len |-> c[2], cap |-> 1],
                  [from |-> 3, to |-> 4, fft |-> c[4], len |-> c[1], cap |-> 1] >>
               \o (IF ret THEN << MkLink(4, 1, 1, 1) >> ELSE << >>)]

PlanNets ==
    {MkNet(c, x, ret) : c \in [1 .. 4 -> PlanCosts], x \in {1, MaxCoord}, ret \in BOOLEAN}

InitPlan ==
    /\ EngineIdle
    /\ HeapIdle
    /\ other = EmptyHeap
    /\ net \in PlanNets
    /\ plan = NoPlan
    /\ nodes = NoNodes

\* the record of a planner call: arguments, outcome, and the network before
PlanRecord(kind, s, d, l, fastest, r) ==
    [kind |-> kind, s |-> s, d |-> d, avoid |-> l, fastest |-> fastest,
     path |-> r.path, err |-> r.err, before |-> net]

\* computePath(source_id, dest_id, fastest)
PlanPlain(s, d, fastest) ==
    /\ plan = NoPlan
    /\ \E r \in {ComputePath(net, s, d, fastest)} :
          plan' = PlanRecord("plain", s, d, NULL, fastest, r)
    /\ UNCHANGED <<engineVars, heapVars, other, net, nodes>>

\* computePathAStar(source_id, dest_id, fastest)
PlanAStar(s, d, fastest) ==
    /\ plan = NoPlan
    /\ \E r \in {ComputePathAStar(net, s, d, fastest)} :
          plan' = PlanRecord("astar", s, d, NULL, fastest, r)
    /\ UNCHANGED <<engineVars, heapVars, other, net, nodes>>

\* computePath(source_id, dest_id, link_id_to_avoid, fastest)
PlanAvoid(s, d, l, fastest) ==
    /\ plan = NoPlan
    /\ \E r \in {ComputePathAvoid(net, s, d, l, fastest)} :
          /\ plan' = PlanRecord("avoid", s, d, l, fastest, r)
          /\ net' = r.nw
    /\ UNCHANGED <<engineVars, heapVars, other, nodes>>

NextPlan ==
    \/ \E s, d \in 1 .. net.n : \E f \in BOOLEAN : PlanPlain(s, d, f)
    \/ \E s, d \in 1 .. net.n : \E f \in BOOLEAN : PlanAStar(s, d, f)
    \/ \E s, d \in 1 .. net.n : \E l \in DOMAIN net.links : \E f \in BOOLEAN :
          PlanAvoid(s, d, l, f)

SpecPlan == InitPlan /\ [][NextPlan]_vars

(***************************************************************************)
(* The strategy under test: a client that builds one Strategy and calls    *)
(* computeStrategy on it twice, on inputs x1 = n1/d1 and x2 = n2/d2.       *)
(***************************************************************************)
\* the largest of cos alpha, sin alpha and theta (in the same unit)
MaxCoef == 1

\* the largest numerator of an input
MaxNum == 2

Coefs == -1 .. MaxCoef

Nums == -1 .. MaxNum

Dens == {1, 2}

\* the strategies of the client: optimized ones of every angle and threshold
Strategies ==
    {[cosA |-> c, sinA |-> sn, theta |-> th, optimized |-> TRUE] :
        c \in Coefs, sn \in Coefs, th \in Coefs}

InitStrategy ==
    /\ EngineIdle
    /\ HeapIdle
    /\ other = EmptyHeap
    /\ net = Net
    /\ nodes = NoNodes
    /\ \E st \in Strategies : plan = [kind |-> "strategy", strat |-> st, calls |-> << >>]

\* bool computeStrategy(float x1, float x2)
StrategyCall(n1, d1, n2, d2) ==
    /\ plan.kind = "strategy"
    /\ Len(plan.calls) < 2
    /\ plan' = [plan EXCEPT !.calls =
                   Append(@, [n1 |-> n1, d1 |-> d1, n2 |-> n2, d2 |-> d2,
                              res |-> ComputeStrategy(plan.strat, n1, d1, n2, d2)])]
    /\ UNCHANGED <<engineVars, heapVars, other, net, nodes>>

NextStrategy == \E n1, n2 \in Nums : \E d1, d2 \in Dens : StrategyCall(n1, d1, n2, d2)

SpecStrategy == InitStrategy /\ [][NextStrategy]_vars

(***************************************************************************)
(* The shuffle under test: every worker reads the same node file and runs  *)
(* shuffleNodesCoordinates on its copy of the network, once or again.      *)
(***************************************************************************)
\* the largest node id of a node file
MaxNodes == 4

\* the largest number of runs of the shuffle on one worker
MaxShuffles == 2

\* the positions (doubled) a node file gives
FilePositions == {0, 2 * NProc + 1}

\* the node files: the ids need not be consecutive
NodeFiles ==
    UNION {[S -> {MkNode(x, x) : x \in FilePositions}] : S \in (SUBSET (1 .. MaxNodes)) \ {{}}}

InitShuffle ==
    /\ EngineIdle
    /\ HeapIdle
    /\ other = EmptyHeap
    /\ net = Net
    /\ plan = [kind |-> "shuffle", runs |-> [w \in Procs |-> 0]]
    /\ \E f \in NodeFiles : nodes = [w \in Procs |-> f]

\* void shuffleNodesCoordinates() on worker w
Shuffle(w) ==
    /\ plan.kind = "shuffle"
    /\ plan.runs[w] < MaxShuffles
    /\ nodes' = [nodes EXCEPT ![w] = ShuffleNodesCoordinates(@)]
    /\ plan' = [plan EXCEPT !.runs[w] = @ + 1]
    /\ UNCHANGED <<engineVars, heapVars, other, net>>

NextShuffle == \E w \in Procs : Shuffle(w)

SpecShuffle == InitShuffle /\ [][NextShuffle]_vars

(***************************************************************************)
(* The recording indices of Model::step: a clock that is advanced tick by  *)
(* tick, around the start of the run and around the ends of the days.      *)
(***************************************************************************)
\* the number of ticks the clock is followed from each start
RecordWindow == 4

\* par.record_interval_aggregate and par.record_interval_snapshot, in minutes
RecordIntervals == {1, 15, 60}

\* the clock values the runs start from
RecordStarts == {0, DaySeconds - (RecordWindow \div 2), 2 * DaySeconds - (RecordWindow \div 2)}

\* Model::step : cur_time_interval at clock t
CurTimeInterval(t, interval) ==
    LET cur == t \div (60 * interval)
    IN  IF t > DaySeconds THEN cur % (DayMinutes \div interval) ELSE cur

InitRecord ==
    /\ EngineIdle
    /\ HeapIdle
    /\ other = EmptyHeap
    /\ net = Net
    /\ nodes = NoNodes
    /\ \E i, sn \in RecordIntervals : \E t0 \in RecordStarts :
          plan = [kind |-> "record", interval |-> i, snapshot |-> sn, start |-> t0,
                  now |-> t0, bucket |-> 0, snap |-> FALSE, slot |-> 0]

\* Model::step : advance the clock, determine the bucket and, at a snapshot
\* tick, the snapshot slot
RecordStep ==
    /\ plan.kind = "record"
    /\ plan.now < plan.start + RecordWindow
    /\ plan' = [plan EXCEPT
                   !.now = @ + 1,
                   !.bucket = CurTimeInterval(plan.now + 1, plan.interval),
                   !.snap = IsSnapshotTick(plan.now + 1, plan.snapshot),
                   !.slot = IF IsSnapshotTick(plan.now + 1, plan.snapshot)
                            THEN SnapshotInterval(plan.now + 1, plan.snapshot) ELSE @]
    /\ UNCHANGED <<engineVars, heapVars, other, net, nodes>>

SpecRecord == InitRecord /\ [][RecordStep]_vars

(***************************************************************************)
(* The readers of the trip catalog, Model::init_transims and               *)
(* Model::init_matsim, on a worker p.  A reader returns the agents it adds *)
(* to the context, in order, and the number of trips it counted.  Each     *)
(* agent carries, besides its id and its trips, the key of the input that  *)
(* supplied the trips (field of).                                          *)
(***************************************************************************)
\* the longest trips file and the longest list of persons read
MaxRows == 3

MaxPersons == 2

\* the initial values of prev_agent_id ("yes -42!") and prev_agent_hh_id
NoAgentYet == -42

NoHouseholdYet == -1

\* the modes retained: Mode_transims::CAR_DRIVER and Mode_transims::TAXI
IsRoadMode(m) == m \in {"car_driver", "taxi"}

\* a row of the trips file after the activity locations were mapped to nodes;
\* the i-th row starts at 10 i and ends 15 later, so that a trip can start
\* before the previous one has ended
TransimsRows ==
    [hh : {1, 2}, person : {1, 2}, mode : {"car_driver", "walk"},
     orig : {1, 2}, dest : {1, 2}]

TransimsFiles == UNION {[1 .. n -> TransimsRows] : n \in 1 .. MaxRows}

RowStart(i) == 10 * i

RowEnd(i) == 10 * i + 15

\* the reader before the first row
TransimsStart ==
    [prev_agent_id |-> NoAgentYet, prev_agent_hh_id |-> NoHouseholdYet,
     end_time_previous_trip |-> 0, trips |-> << >>, cur_agent_id |-> 1,
     created |-> << >>, n_trips |-> 0]

\* the test that guards both addAgent calls of init_transims
IsTraveller(p, trips) ==
    trips # << >> /\ IsInLocalBounds(p, NodeX2(trips[1].o), NodeY2(trips[1].o))

\* init_transims, the body of the loop on row i of the file
TransimsRow(st, row, i, p, correct) ==
    LET cur_agent_id == row.hh * 100 + row.person
        first        == st.prev_agent_id = NoAgentYet
        prev_id      == IF first THEN row.person ELSE st.prev_agent_id
        prev_hh      == IF first THEN row.hh ELSE st.prev_agent_hh_id
        keep         == row.orig # row.dest /\ IsRoadMode(row.mode)
        curTrip      == MkTrip(row.orig, row.dest, RowStart(i))
        corrected    == IF correct /\ RowStart(i) < st.end_time_previous_trip
                        THEN MkTrip(row.orig, row.dest, st.end_time_previous_trip)
                        ELSE curTrip
    IN  IF row.person = prev_id /\ row.hh = prev_hh
        THEN [st EXCEPT !.cur_agent_id = cur_agent_id,
                        !.prev_agent_id = prev_id, !.prev_agent_hh_id = prev_hh,
                        !.trips = IF keep THEN Append(@, corrected) ELSE @,
                        !.n_trips = IF keep THEN @ + 1 ELSE @,
                        !.end_time_previous_trip = RowEnd(i)]
        ELSE [st EXCEPT !.cur_agent_id = cur_agent_id,
                        !.created = IF IsTraveller(p, st.trips)
                                    THEN Append(@, [id |-> cur_agent_id, trips |-> st.trips,
                                                    of |-> <<prev_hh, prev_id>>])
                                    ELSE @,
                        !.trips = IF keep THEN <<curTrip>> ELSE << >>,
                        !.prev_agent_id = row.person, !.prev_agent_hh_id = row.hh,
                        !.n_trips = IF keep THEN @ + 1 ELSE @,
                        !.end_time_previous_trip = IF correct THEN RowEnd(i) ELSE @]

RECURSIVE TransimsLoop(_, _, _, _, _)
TransimsLoop(st, rows, i, p, correct) ==
    IF i > Len(rows) THEN st
    ELSE TransimsLoop(TransimsRow(st, rows[i], i, p, correct), rows, i + 1, p, correct)

\* Model::init_transims on worker p
InitTransims(rows, p, correct) ==
    LET st == TransimsLoop(TransimsStart, rows, 1, p, correct)
    IN  [created |-> IF IsTraveller(p, st.trips)
                     THEN Append(st.created,
                                 [id |-> st.cur_agent_id, trips |-> st.trips,
                                  of |-> <<st.prev_agent_hh_id, st.prev_agent_id>>])
                     ELSE st.created,
         n_trips |-> st.n_trips]

\* a person of the plans file: the hash of its id, the node of its first act
\* (its home) and the nodes of the acts between the first and the last one;
\* the k-th act ends at k
MatsimPersons ==
    [id : {1, 2}, home : {1, 2}, acts : UNION {[1 .. n -> {1, 2}] : n \in 0 .. 2}]

MatsimFiles == UNION {[1 .. n -> MatsimPersons] : n \in 1 .. MaxPersons}

\* init_matsim, the loop on the acts of one person from act k on
RECURSIVE MatsimActs(_, _, _)
MatsimActs(st, acts, k) ==
    IF k > Len(acts) THEN st
    ELSE LET differ == st.act_node_id_start # acts[k]
         IN  MatsimActs([st EXCEPT
                            !.trips = IF differ
                                      THEN Append(@, MkTrip(st.act_node_id_start, acts[k],
                                                            st.act_end_time_prev))
                                      ELSE @,
                            !.n_trips = IF differ THEN @ + 1 ELSE @,
                            !.add_agent = IF differ THEN @ ELSE FALSE,
                            !.act_end_time_prev = k,
                            !.act_node_id_start = acts[k]],
                        acts, k + 1)

\* init_matsim, the body of the loop on the persons
MatsimPerson(res, per, p) ==
    IF ~IsInLocalBounds(p, NodeX2(per.home), NodeY2(per.home)) THEN res
    ELSE LET st   == MatsimActs([trips |-> << >>, n_trips |-> 0, add_agent |-> TRUE,
                                 act_end_time_prev |-> 0, act_node_id_start |-> per.home],
                                per.acts, 1)
             home == st.act_node_id_start # per.home
             trips == IF home
                      THEN Append(st.trips, MkTrip(st.act_node_id_start, per.home,
                                                   st.act_end_time_prev))
                      ELSE st.trips
         IN  [created |-> IF st.add_agent /\ home
                          THEN Append(res.created,
                                      [id |-> per.id, trips |-> trips, of |-> <<per.id>>])
                          ELSE res.created,
              n_trips |-> res.n_trips + st.n_trips + (IF home THEN 1 ELSE 0)]

RECURSIVE MatsimLoop(_, _, _, _)
MatsimLoop(res, pers, i, p) ==
    IF i > Len(pers) THEN res
    ELSE MatsimLoop(MatsimPerson(res, pers[i], p), pers, i + 1, p)

\* Model::init_matsim on worker p
InitMatsim(pers, p) == MatsimLoop([created |-> << >>, n_trips |-> 0], pers, 1, p)

\* a worker is about to read a trip catalog in one of the two formats
InitIngest ==
    /\ EngineIdle
    /\ HeapIdle
    /\ other = EmptyHeap
    /\ net = Net
    /\ nodes = NoNodes
    /\ \E p \in Procs :
          \/ \E rows \in TransimsFiles : \E c \in BOOLEAN :
                plan = [kind |-> "ingest", format |-> "transims", proc |-> p,
                        rows |-> rows, correct |-> c, done |-> FALSE,
                        created |-> << >>, n_trips |-> 0]
          \/ \E pers \in MatsimFiles :
                plan = [kind |-> "ingest", format |-> "matsim", proc |-> p,
                        persons |-> pers, done |-> FALSE,
                        created |-> << >>, n_trips |-> 0]

ReadTransims ==
    /\ plan.kind = "ingest" /\ plan.format = "transims" /\ ~plan.done
    /\ \E r \in {InitTransims(plan.rows, plan.proc, plan.correct)} :
          plan' = [plan EXCEPT !.done = TRUE, !.created = r.created, !.n_trips = r.n_trips]
    /\ UNCHANGED <<engineVars, heapVars, other, net, nodes>>

ReadMatsim ==
    /\ plan.kind = "ingest" /\ plan.format = "matsim" /\ ~plan.done
    /\ \E r \in {InitMatsim(plan.persons, plan.proc)} :
          plan' = [plan EXCEPT !.done = TRUE, !.created = r.created, !.n_trips = r.n_trips]
    /\ UNCHANGED <<engineVars, heapVars, other, net, nodes>>

NextIngest == ReadTransims \/ ReadMatsim

SpecIngest == InitIngest /\ [][NextIngest]_vars

Next ==
    \/ \E p \in Procs : BeginStep(p)
    \/ \E p \in Procs : AgentEvent(p)
    \/ \E p \in Procs : EndWalk(p)
    \/ SynchAgents
    \/ CheckStop

Spec == Init /\ [][Next]_vars

\* the loop of Model::step moves on to the next local agent
LoopAdvance(p) ==
    /\ pc[p] = "walk"
    /\ walk[p] # << >>
    /\ walk' = [walk EXCEPT ![p] = Tail(@)]

\* the schedule runner executes every event that is due, each worker runs its
\* handler to the end, and the collectives complete once every worker is in them
SpecFair ==
    /\ Spec
    /\ WF_vars(SynchAgents)
    /\ WF_vars(CheckStop)
    /\ \A p \in Procs :
          WF_vars(BeginStep(p)) /\ WF_vars(EndWalk(p)) /\ WF_walk(LoopAdvance(p))

(***************************************************************************)
(* The runs S1, S2, S3: the engine on a network and a population of its    *)
(* own.                                                                    *)
(***************************************************************************)
\* S1 : nodes A = 1 and B = 2, one link A -> B of free-flow time 100 s and
\* ample capacity; S2 : the same link with capacity 2
NetS1 ==
    [n     |-> 2,
     xd    |-> <<0, 1>>,
     yd    |-> <<0, 0>>,
     out   |-> << <<1>>, << >> >>,
     links |-> << MkLink(1, 2, 100, 4) >>]

NetS2 == [NetS1 EXCEPT !.links = << MkLink(1, 2, 100, 2) >>]

\* S3 : the diamond A = 1, B = 2, C = 3, D = 4 with the links A -> B, A -> C,
\* B -> D (capacity 1) and C -> D; the path through B is the cheaper one
NetS3 ==
    [n     |-> 4,
     xd    |-> <<0, 1, 1, 2>>,
     yd    |-> <<0, 0, 1, 0>>,
     out   |-> << <<1, 2>>, <<3>>, <<4>>, << >> >>,
     links |-> << MkLink(1, 2, 1, 4), MkLink(1, 3, 4, 4), MkLink(2, 4, 5, 1),
                  MkLink(3, 4, 4, 4) >>]

\* S1 : one agent with the trip A -> B at t = 0
PopS1 == << [trips |-> << MkTrip(1, 2, 0) >>, strat |-> NoStrategy] >>

\* S2 : every agent starts the trip A -> B at t = 0
PopS2 == [i \in AgentIds |-> [trips |-> << MkTrip(1, 2, 0) >>, strat |-> NoStrategy]]

\* S3 : the test agent, the last one, with the strategy alpha = 0, theta = 0
\* (cos alpha = 1, sin alpha = 0) and the trip A -> D; the others start on B -> D
TestAgent == NAgents

PopS3 ==
    [i \in AgentIds |->
        IF i = TestAgent
        THEN [trips |-> << MkTrip(1, 4, 0) >>, strat |-> MkStrategy(1, 0, 0)]
        ELSE [trips |-> << MkTrip(2, 4, 0) >>, strat |-> NoStrategy]]

Scenarios ==
    { [net |-> NetS1, pop |-> PopS1], [net |-> NetS2, pop |-> PopS2],
      [net |-> NetS3, pop |-> PopS3] }

InitScenario ==
    /\ HeapIdle
    /\ other = EmptyHeap
    /\ plan = NoPlan
    /\ nodes = NoNodes
    /\ \E sc \in Scenarios : net = sc.net /\ EngineStart(sc.pop)

SpecScenario == InitScenario /\ [][Next]_vars

(***************************************************************************)
(* The engine around a snapshot tick: trips that start just before the     *)
(* first minute of the run is over.                                        *)
(***************************************************************************)
SnapshotConfigs ==
    { [trips |-> << MkTrip(1, 4, 58) >>,                   strat |-> NoStrategy],
      [trips |-> << MkTrip(1, 4, 59) >>,                   strat |-> NoStrategy],
      [trips |-> << MkTrip(2, 3, 59) >>,                   strat |-> MkStrategy(0, 1, 0)],
      [trips |-> << MkTrip(4, 1, 58), MkTrip(1, 2, 60) >>, strat |-> NoStrategy] }

InitSnapshot ==
    /\ HeapIdle
    /\ PlanIdle
    /\ \E n \in AgentIds : \E pop \in [1 .. n -> SnapshotConfigs] : EngineStart(pop)

SpecSnapshot == InitSnapshot /\ [][Next]_vars

(***************************************************************************)
(* The engine on trips whose starting times are not full seconds.          *)
(***************************************************************************)
TimingConfigs ==
    { [trips |-> << MkTripAt(1, 4, 1, TimeTolerance) >>,              strat |-> NoStrategy],
      [trips |-> << MkTripAt(4, 1, 0, TimeScale \div 2) >>,           strat |-> NoStrategy],
      [trips |-> << MkTrip(1, 2, 0), MkTripAt(2, 4, 1, TimeTolerance) >>,
                                                                      strat |-> NoStrategy],
      [trips |-> << MkTrip(4, 1, 0), MkTripAt(1, 3, 5, TimeScale \div 2) >>,
                                                                      strat |-> MkStrategy(0, 1, 0)] }

InitTiming ==
    /\ HeapIdle
    /\ PlanIdle
    /\ \E n \in AgentIds : \E pop \in [1 .. n -> TimingConfigs] : EngineStart(pop)

SpecTiming == InitTiming /\ [][Next]_vars

(***************************************************************************)
(* PART IV - Properties                                                    *)
(***************************************************************************)
\* the agents held by some worker, and the worker whose bounds contain a position
AllIds == UNION {LocalIds(p) : p \in Procs}

OwnerOfPosition(x2, y2) == CHOOSE q \in Procs : IsInLocalBounds(q, x2, y2)

\* the worker that owns the origin node of link l
LinkOwner(l) == OwnerOfPosition(NodeX2(Net.links[l].from), NodeY2(Net.links[l].from))

\* the local agents of p that are on link l, that travel, that wait for migration
OnLink(p, l) == {i \in LocalIds(p) : ~agents[p][i].at_node /\ agents[p][i].cur_link = l}

Travelling(p) == {i \in LocalIds(p) : agents[p][i].en_route /\ ~agents[p][i].at_node}

Pending(p) == LocalIds(p) \cap DOMAIN toMove[p]

AllAt(where) == \A p \in Procs : pc[p] = where

OccupancySum == SumOver([l \in LinkIds |-> occ[LinkOwner(l)][l]], LinkIds)

\* C1 (P1 conservation): in every state between two loop bodies, hence after
\* every tick, the occupancies of all links, each read on the worker that owns
\* the link's origin node, sum to the number of live agents with en_route and
\* not at_node.
C1_Conservation ==
    OccupancySum = SumOver([p \in Procs |-> Cardinality(Travelling(p))], Procs)

\* C1 witness: a tick has ended on every worker with an agent on a link and
\* another agent already retired.
C1_Witness == AllAt("sync") /\ OccupancySum >= 1 /\ retired # {}

\* C2 (per-link occupancy): after every transition the occupancy of every link
\* on its owner equals the number of the owner's local agents with not at_node
\* and cur_link = L, and no counter of any worker has wrapped below zero.
C2_PerLinkOccupancy ==
    /\ \A l \in LinkIds : occ[LinkOwner(l)][l] = Cardinality(OnLink(LinkOwner(l), l))
    /\ \A p \in Procs, l \in LinkIds : occ[p][l] <= NAgents

\* C2 witness: the second of two agents has just entered a link.
C2_Witness ==
    /\ lastMut # << >>
    /\ lastMut[3] = "inc"
    /\ occ[lastMut[1]][lastMut[2]] = 2

\* C3 (owner-only mutation): every increment and decrement is executed by the
\* owner of the link's origin node; an agent that waits for migration is at a
\* node, is no longer counted on the link it left, and is not yet counted by
\* the destination worker on the link it will enter.
C3_OwnerOnlyMutation ==
    /\ lastMut # << >> => lastMut[1] = LinkOwner(lastMut[2])
    /\ \A p \in Procs : \A i \in Pending(p) :
          /\ agents[p][i].at_node
          /\ occ[p][agents[p][i].cur_link]
                = Cardinality(OnLink(p, agents[p][i].cur_link))
          /\ agents[p][i].path # << >> =>
                LET q == toMove[p][i]
                    l == agents[p][i].path[Len(agents[p][i].path)]
                IN  LinkOwner(l) = q /\ occ[q][l] = Cardinality(OnLink(q, l))

\* C3 witness: a migrated agent departs on its new worker, which increments
\* the link it enters.
C3_Witness ==
    /\ lastEvent # << >>
    /\ lastEvent[2] \in lastMigrated
    /\ lastEvent[3] = "depart"
    /\ lastMut # << >>
    /\ lastMut[1] = lastEvent[1]
    /\ lastMut[3] = "inc"

\* C4 (P3 partition consistency): outside the walk every local agent is inside
\* the bounds of its worker; during the walk and until the synchronisation
\* every local agent outside the bounds is in the migration map with the owner
\* of its position as destination.
C4_PartitionConsistency ==
    \A p \in Procs : \A i \in LocalIds(p) :
        IF pc[p] \in {"walk", "sync"}
        THEN ~IsInLocalBounds(p, agents[p][i].x2, agents[p][i].y2) =>
                /\ i \in DOMAIN toMove[p]
                /\ toMove[p][i] = OwnerOfPosition(agents[p][i].x2, agents[p][i].y2)
        ELSE IsInLocalBounds(p, agents[p][i].x2, agents[p][i].y2)

\* C4 witness: a synchronisation has just moved an agent, which is live.
C4_Witness == AllAt("idle") /\ lastMigrated \cap AllIds # {}

\* C5 (P2 non-negative time): remaining_time >= 0 for every agent after every
\* transition.
C5_NonNegativeTime ==
    \A p \in Procs : \A i \in LocalIds(p) : agents[p][i].rem >= 0

\* C5 witness: an agent finished a trip after the start of its next one; its
\* remaining time was clamped to 0.
C5_Witness ==
    /\ lastEvent # << >>
    /\ lastEvent[3] = "endtrip"
    /\ lastEvent[2] \in LocalIds(lastEvent[1])
    /\ LET a == agents[lastEvent[1]][lastEvent[2]]
       IN  a.rem = 0 /\ Head(a.trips).start < time[lastEvent[1]]

\* C6 (migration conserves agents): the workers hold disjoint sets of agents,
\* which with the retired agents are the agents created; a synchronisation
\* removes each flagged agent from its worker and hands it, unchanged, to the
\* destination worker in the same step.
C6_MigrationConserves ==
    /\ [](/\ \A p, q \in Procs : p # q => LocalIds(p) \cap LocalIds(q) = {}
          /\ AllIds \cap retired = {}
          /\ AllIds \cup retired = DOMAIN population
          /\ \A p \in Procs : \A i \in LocalIds(p) : agents[p][i].id = i)
    /\ [][AllAt("sync") =>
            \A p \in Procs : \A i \in Pending(p) :
                /\ i \notin DOMAIN agents'[p]
                /\ i \in DOMAIN agents'[toMove[p][i]]
                /\ agents'[toMove[p][i]][i] = agents[p][i]]_vars

\* C6 witness: a synchronisation moved an agent, an agent was retired before
\* and an agent is still live.
C6_Witness == lastMigrated # {} /\ retired # {} /\ AllIds # {}

\* C7 (migration visibility): within a tick no agent is advanced twice nor
\* receives two transitions, and when every worker has finished its walk each
\* live agent was advanced exactly once, by the worker that holds it.
C7_MigrationVisibility ==
    /\ \A i \in AgentIds : Len(handledBy[i]) <= 1 /\ nTrans[i] <= 1
    /\ AllAt("sync") =>
          \A p \in Procs : \A i \in LocalIds(p) : handledBy[i] = <<p>>

\* C7 witness: the tick after a migration has ended and the migrated agent was
\* advanced, with a transition, by its new worker.
C7_Witness ==
    /\ AllAt("sync")
    /\ \E p \in Procs : \E i \in lastMigrated \cap LocalIds(p) :
          handledBy[i] = <<p>> /\ nTrans[i] = 1

\* a population of one agent with one trip over one link
SingleOneLinkTrip ==
    /\ DOMAIN population = {1}
    /\ Len(population[1].trips) = 1
    /\ Len(ComputePathAStar(Net, population[1].trips[1].o,
                            population[1].trips[1].d, TRUE).path) = 1

\* the free-flow time, in ticks, of the link of that trip
SingleTravelTime ==
    Net.links[Head(ComputePathAStar(Net, population[1].trips[1].o,
                                    population[1].trips[1].d, TRUE).path)].fft

AllStopped == AllAt("stopped") /\ retired = DOMAIN population

C9_StopCondition ==
    /\ [][(\E p \in Procs : pc[p] # "stopped" /\ pc'[p] = "stopped") =>
            /\ \A q \in Procs : /\ pc[q] = "check" /\ pc'[q] = "stopped"
                                /\ time[q] >= CheckStart
                                /\ (time[q] - CheckStart) % CheckPeriod = 0
            /\ AllIds = {}]_vars
    /\ []((\E p \in Procs : pc[p] = "stopped") => AllAt("stopped") /\ AllIds = {})
    /\ [](emptiedAt # 0 =>
            \A p \in Procs :
               /\ time[p] - emptiedAt <= CheckPeriod
               /\ (pc[p] = "idle" /\ time[p] >= emptiedAt) =>
                     (time[p] - CheckStart) % CheckPeriod # 0)

\* C9 witness: the last agent left after the first check and the run stopped
\* at the second one.
C9_Witness ==
    /\ AllAt("stopped")
    /\ emptiedAt > CheckStart
    /\ \A p \in Procs : time[p] = CheckStart + CheckPeriod

\* C10 (P4 heap order): the keys minimum and deletemin produce between two
\* calls of insert or decreaseKey never decrease; the extracted handles are
\* distinct handles insert returned; and every other handle is an entry of the
\* heap, live, not released, with the data it was inserted with.
C10_HeapOrder ==
    /\ Len(hlog.run) = 2 => hlog.run[1] <= hlog.run[2]
    /\ \A i, j \in DOMAIN hlog.extracted :
          i # j => hlog.extracted[i] # hlog.extracted[j]
    /\ \A i \in DOMAIN hlog.extracted : hlog.extracted[i] \in Handles
    /\ Members(heap) = NotExtracted
    /\ \A n \in NotExtracted :
          heap.nodes[n].live /\ ~heap.nodes[n].freed /\ heap.nodes[n].data = n

\* C10 witness: after a decreaseKey with a cascading cut, two successive
\* deletemin calls produced increasing keys and entries remain in the heap.
C10_Witness ==
    /\ hlog.cuts >= 2
    /\ hlog.op = "deletemin"
    /\ Len(hlog.run) = 2
    /\ hlog.run[1] < hlog.run[2]
    /\ NotExtracted # {}


\* the links of path p, in the order of travel, lead from node s to node d
IsWalk(nw, p, s, d) ==
    /\ p # << >>
    /\ \A i \in DOMAIN p : p[i] \in DOMAIN nw.links
    /\ nw.links[p[1]].from = s
    /\ \A i \in 1 .. (Len(p) - 1) : nw.links[p[i]].to = nw.links[p[i + 1]].from
    /\ nw.links[p[Len(p)]].to = d

\* a planner result read from its last element to its first
Reversed(p) == [i \in 1 .. Len(p) |-> p[Len(p) + 1 - i]]

\* the walks of at most n - 1 links from s to d that use no link of banned;
\* they include every path without a repeated node
WalksAvoiding(nw, s, d, banned) ==
    {p \in UNION {[1 .. k -> (DOMAIN nw.links) \ banned] : k \in 1 .. (nw.n - 1)} :
        IsWalk(nw, p, s, d)}

\* the cost of a sequence of links on the cost function chosen by the flag
RECURSIVE PathCost(_, _, _)
PathCost(nw, p, fastest) ==
    IF p = << >> THEN 0
    ELSE LinkCost(nw, Head(p), fastest) + PathCost(nw, Tail(p), fastest)

\* the links of a planner result
LinksOf(p) == {p[i] : i \in DOMAIN p}

PlanDone == plan.kind \in {"plain", "astar", "avoid"}

\* C11 (empty-heap errors): a call of minimum or deletemin on a heap without
\* entries, fresh or emptied by extractions, ends with an error and leaves the
\* heap without entries, with count 0; on a heap with entries neither call
\* ends with an error.  A heap has no entries exactly when its count is 0.
C11_EmptyHeapErrors ==
    /\ [](HeapEmpty(heap) <=> NotExtracted = {})
    /\ [][(HMinimum \/ HDeleteMin) =>
            IF NotExtracted = {}
            THEN /\ heap'.err # NoErr
                 /\ GetCount(heap') = 0
                 /\ Members(heap') = {}
            ELSE heap'.err = NoErr]_vars

\* C11 witness: deletemin was called after every entry had been extracted,
\* and ended with an error.
C11_Witness ==
    /\ hlog.op = "deletemin"
    /\ heap.err # NoErr
    /\ Len(hlog.extracted) >= 2
    /\ NotExtracted = {}

\* C12 (decrease_key error): decreaseKey(handle, new_key) ends with an error
\* exactly when new_key is greater than the key of the entry, and then every
\* node, the structure, the count and the minimum are as before; otherwise the
\* entry has the new key, every other key and the set of entries are as
\* before, and the key of minimum() is the smallest key in the heap.
C12_DecreaseKeyError ==
    [][\A n \in Handles : \A k \in 0 .. MaxKey :
          HDecreaseKey(n, k) =>
             IF k > heap.nodes[n].key
             THEN /\ heap'.err # NoErr
                  /\ heap'.nodes = heap.nodes
                  /\ heap'.min = heap.min
                  /\ heap'.count = heap.count
             ELSE /\ heap'.err = NoErr
                  /\ heap'.nodes[n].key = k
                  /\ \A m \in Handles \ {n} : heap'.nodes[m].key = heap.nodes[m].key
                  /\ Members(heap') = Members(heap)
                  /\ HeapMinimum(heap') # NULL
                  /\ heap'.nodes[HeapMinimum(heap')].key
                        = MinOf({heap'.nodes[m].key : m \in Members(heap')})]_vars

\* C12 witness: after a decreaseKey that cut a node from its parent, a
\* decreaseKey to a greater key ended with an error.
C12_Witness ==
    /\ hlog.op = "decreaseKey"
    /\ heap.err = "Trying to decrease key to a greater key"
    /\ hlog.cuts >= 1

\* C13 (merge): after a.merge(b) the heap a holds exactly the entries of a and
\* of b, with their keys, its count is the sum of the two counts and
\* minimum() has the smallest key of the union; also when a or b is empty.
C13_Merge ==
    plan.kind = "merge" =>
        LET a   == plan.before
            off == Len(a.nodes)
            all == Members(a) \cup {m + off : m \in Members(other)}
        IN  /\ heap.err = NoErr
            /\ Members(heap) = all
            /\ \A m \in Members(a) : heap.nodes[m].key = a.nodes[m].key
            /\ \A m \in Members(other) : heap.nodes[m + off].key = other.nodes[m].key
            /\ GetCount(heap) = GetCount(a) + GetCount(other)
            /\ all # {} =>
                  /\ HeapMinimum(heap) # NULL
                  /\ heap.nodes[HeapMinimum(heap)].key
                        = MinOf({heap.nodes[m].key : m \in all})

\* C14 (P5 path closure): for s # d with d reachable from s, each planner
\* returns a sequence which, read from its last element to its first, starts
\* with a link that leaves s, continues with links that leave the node the
\* previous one enters, and ends with a link that enters d.
C14_PathClosure ==
    (PlanDone /\ plan.s # plan.d
              /\ WalksAvoiding(plan.before, plan.s, plan.d, {}) # {}) =>
        /\ plan.err = NoErr
        /\ IsWalk(plan.before, Reversed(plan.path), plan.s, plan.d)

\* C14 witness: the edge-avoiding planner returned a path of two links.
C14_Witness ==
    /\ plan.kind = "avoid"
    /\ plan.err = NoErr
    /\ Len(plan.path) = 2
    /\ plan.avoid \notin {plan.path[i] : i \in DOMAIN plan.path}
    /\ IsWalk(plan.before, Reversed(plan.path), plan.s, plan.d)

\* C15 (P6 A* optimality): for s # d with d reachable from s, the path that
\* computePathAStar returns costs, on the cost function chosen by the flag, as
\* much as the path the plain shortest-path search returns for the same call.
C15_AStarOptimal ==
    (plan.kind = "astar" /\ plan.s # plan.d
        /\ WalksAvoiding(plan.before, plan.s, plan.d, {}) # {}) =>
        /\ plan.err = NoErr
        /\ PathCost(plan.before, plan.path, plan.fastest)
              = PathCost(plan.before,
                         ComputePath(plan.before, plan.s, plan.d, plan.fastest).path,
                         plan.fastest)

\* C16 (source equals destination): called with source = destination, each of
\* the three planners returns the empty sequence and raises no error.
C16_SourceIsDest ==
    (PlanDone /\ plan.s = plan.d) => (plan.err = NoErr /\ plan.path = << >>)

\* C17 (NoPath): called with a destination that is not reachable from the
\* source, computePathAStar ends, with the error the empty open set raises,
\* and returns no sequence of links.
C17_NoPath ==
    (plan.kind = "astar" /\ plan.s # plan.d
        /\ WalksAvoiding(plan.before, plan.s, plan.d, {}) = {}) =>
        /\ plan.err = "no minimum element"
        /\ plan.path = << >>

\* C17 witness: the search left a source that has an outgoing link and failed.
C17_Witness ==
    /\ plan.kind = "astar"
    /\ plan.err = "no minimum element"
    /\ plan.before.out[plan.s] # << >>
    /\ WalksAvoiding(plan.before, plan.s, plan.d, {}) = {}

\* C18 (edge avoidance): the path the edge-avoiding planner returns for
\* (s, d, l) contains l only if every path from s to d contains l.
C18_EdgeAvoidance ==
    (plan.kind = "avoid" /\ plan.err = NoErr /\ plan.avoid \in LinksOf(plan.path)) =>
        WalksAvoiding(plan.before, plan.s, plan.d, {plan.avoid}) = {}

\* C18 witness: the planner returned a path through the avoided link, which
\* every path from s to d has to take.
C18_Witness ==
    /\ plan.kind = "avoid"
    /\ plan.err = NoErr
    /\ plan.avoid \in LinksOf(plan.path)
    /\ WalksAvoiding(plan.before, plan.s, plan.d, {}) # {}

\* C19 (P7 soft avoid): whenever the edge-avoiding planner returns a path that
\* includes the avoided link, the cost of that path on the true cost function
\* is strictly lower than the true cost of every path from s to d that
\* excludes the avoided link.
C19_SoftAvoid ==
    (plan.kind = "avoid" /\ plan.err = NoErr /\ plan.avoid \in LinksOf(plan.path)) =>
        \A w \in WalksAvoiding(plan.before, plan.s, plan.d, {plan.avoid}) :
            PathCost(plan.before, plan.path, plan.fastest)
              < PathCost(plan.before, w, plan.fastest)

\* C19 witness: the planner returned a path of several links, one of them the
\* avoided link, planned on the lengths.
C19_Witness ==
    /\ plan.kind = "avoid"
    /\ plan.err = NoErr
    /\ ~plan.fastest
    /\ Len(plan.path) >= 2
    /\ plan.avoid \in LinksOf(plan.path)

\* C20 - edge-avoid frame : when the edge-avoiding planner returns, the cost
\* of the avoided link that the flag selects (free-flow time if fastest,
\* length otherwise) is the value it had before the call, and no other
\* field of any link, no node and no occupancy has changed.
C20_AvoidFrame ==
    (plan.kind = "avoid" /\ plan.err = NoErr)
        => /\ LinkCost(net, plan.avoid, plan.fastest)
                  = LinkCost(plan.before, plan.avoid, plan.fastest)
           /\ \A l \in DOMAIN net.links : net.links[l] = plan.before.links[l]
           /\ net = plan.before
           /\ occ = [p \in Procs |-> [l \in LinkIds |-> 0]]

\* an edge-avoiding call between distinct nodes has returned a path
C20_Witness ==
    /\ plan.kind = "avoid"
    /\ plan.err = NoErr
    /\ plan.s # plan.d
    /\ plan.path # << >>
    /\ plan.avoid \notin LinksOf(plan.path)
    /\ net = plan.before

\* the fraction n/d is at most the fraction m/e (d, e > 0)
FracLeq(n, d, m, e) == n * e <= m * d

\* C21 (P9 strategy monotonicity): for a fixed strategy with cos alpha >= 0
\* and sin alpha >= 0, if computeStrategy(x1, x2) is true and x1 <= x1',
\* x2 <= x2', then computeStrategy(x1', x2') is true; and every call returns
\* true exactly when x1 * cos alpha + x2 * sin alpha - theta > 0.
C21_StrategyMonotone ==
    plan.kind = "strategy" =>
        /\ \A i \in DOMAIN plan.calls :
              LET c == plan.calls[i]
              IN  c.res <=> (c.n1 * c.d2 * plan.strat.cosA + c.n2 * c.d1 * plan.strat.sinA
                                > plan.strat.theta * c.d1 * c.d2)
        /\ (/\ Len(plan.calls) = 2
            /\ plan.strat.cosA >= 0
            /\ plan.strat.sinA >= 0
            /\ plan.calls[1].res
            /\ FracLeq(plan.calls[1].n1, plan.calls[1].d1, plan.calls[2].n1, plan.calls[2].d1)
            /\ FracLeq(plan.calls[1].n2, plan.calls[1].d2, plan.calls[2].n2, plan.calls[2].d2))
               => plan.calls[2].res

\* the rule with both weights positive fired at (1/2, 1/2) and again at the
\* larger point (1, 2); it did not fire at a point on the threshold line
C21_Witness ==
    /\ plan.kind = "strategy"
    /\ plan.strat.cosA > 0 /\ plan.strat.sinA > 0 /\ plan.strat.theta = 0
    /\ Len(plan.calls) = 2
    /\ plan.calls[1].res /\ plan.calls[2].res
    /\ plan.calls[1].n1 = 1 /\ plan.calls[1].d1 = 2 /\ plan.calls[1].n2 = 1 /\ plan.calls[1].d2 = 2
    /\ plan.calls[2].n1 = 1 /\ plan.calls[2].d1 = 1 /\ plan.calls[2].n2 = 2 /\ plan.calls[2].d2 = 1

\* the step is one iteration of the main loop of worker p (the agent handled
\* is Head(walk[p]))
LoopBody(p) == pc[p] = "walk" /\ walk[p] # << >> /\ walk'[p] # walk[p]

\* the worker that created agent i at initialisation
CreatedBy(i) == CHOOSE q \in Procs : i \in CreatedOn(q, population)

\* C22 (non-strategic agents): an agent that received no strategy (optimized
\* = false) never has its path replaced and never increments the rerouting
\* counter, whatever the occupancy of its next link and the elapsed time, on
\* the worker that created it and on every worker it was migrated to: when it
\* leaves a node it takes the last link of its path and keeps the rest.
C22_NonStrategic ==
    [][\A p \in Procs :
          (LoopBody(p) /\ ~population[Head(walk[p])].strat.optimized)
              => LET id == Head(walk[p])
                     a  == agents[p][id]
                 IN  /\ rerouting' = rerouting
                     /\ lastEvent'[3] # "reroute"
                     /\ id \in DOMAIN agents'[p] => ~agents'[p][id].strat.optimized
                     /\ lastEvent'[3] = "depart"
                           => /\ agents'[p][id].cur_link = a.path[Len(a.path)]
                              /\ agents'[p][id].path = SubSeq(a.path, 1, Len(a.path) - 1)]_vars

\* an agent without strategy has left a node on a worker that did not create
\* it, on a link that another agent occupied already
C22_Witness ==
    /\ lastEvent # << >>
    /\ lastEvent[3] = "depart"
    /\ ~population[lastEvent[2]].strat.optimized
    /\ lastEvent[1] # CreatedBy(lastEvent[2])
    /\ lastEvent[2] \in LocalIds(lastEvent[1])
    /\ occ[lastEvent[1]][agents[lastEvent[1]][lastEvent[2]].cur_link] >= 2

\* the number of nodes of worker w's map that come before node id
NodeRank(w, id) == Cardinality({j \in DOMAIN nodes[w] : j < id})

\* the workers whose strip contains the partitioning position of node id
StripsOf(w, id) == {p \in Procs : IsInLocalBounds(p, nodes[w][id].x2, nodes[w][id].y2)}

IsS1 == net = NetS1 /\ population = PopS1

IsS2 == net = NetS2 /\ population = PopS2

IsS3 == net = NetS3 /\ population = PopS3

\* C24 (S1 two-node trip): with one link A -> B of free-flow time 100 s and
\* ample capacity and one agent whose only trip A -> B starts at t = 0, the
\* trip-end transition of the agent fires in the tick in which the clock is
\* 100, and its fitness sample is 100/100.
C24_TwoNodeTrip ==
    (IsS1 /\ lastEvent # << >> /\ lastEvent[3] = "endtrip")
        => /\ time[lastEvent[1]] = 100
           /\ samples[1] = << <<1, 1>> >>

\* C24 as the engine runs S1 (time tolerance below one second): the trip is
\* started in the first tick, in which the clock is 1 already, and takes the
\* 100 s of the free flow, so that the trip-end transition fires in the tick
\* in which the clock is 101, and the fitness sample is 100/(101 - 0).
C24_TwoNodeTripAmended ==
    (IsS1 /\ lastEvent # << >> /\ lastEvent[3] = "endtrip")
        => /\ time[lastEvent[1]] = 101
           /\ samples[1] = << <<100, 101>> >>
           /\ fitness[lastEvent[1]][1] = <<100, 101>>

\* the agent of S1 has ended its trip and was removed
C24_Witness ==
    /\ IsS1
    /\ lastEvent = <<0, 1, "endtrip">>
    /\ retired = {1}
    /\ tripsPerformed[0] = 1

\* the agents of worker p that entered a link earlier in the running tick
EnteredBefore(p, id) ==
    {j \in LocalIds(p) \ {id} : nTrans[j] >= 1 /\ ~agents[p][j].at_node}

\* C25 (S2 congestion penalty): when all the agents of the run (ten in the
\* text) start the same one-link trip at the same time on a link of capacity
\* 2, every one of them receives the same travel time, the BPR value for n =
\* the number of agents and c = 2, and so all arrive at the same tick.
C25_CongestionPenalty ==
    IsS2 =>
        /\ (lastEvent # << >> /\ lastEvent[3] = "depart")
              => agents[lastEvent[1]][lastEvent[2]].rem = TimeOnLink(1, NAgents)
        /\ AllAt("sync") => (retired = {} \/ retired = AgentIds)

\* C25 as the engine runs S2: the agents are handled one after the other in
\* the tick in which they start, each receives the BPR travel time for the
\* occupancy the link has reached at its turn, so that the travel times grow
\* strictly in the order of handling and the agents do not all arrive at the
\* same tick.
C25_CongestionPenaltyAmended ==
    IsS2 =>
        /\ (lastEvent # << >> /\ lastEvent[3] = "depart")
              => \A j \in EnteredBefore(lastEvent[1], lastEvent[2]) :
                    agents[lastEvent[1]][lastEvent[2]].rem > agents[lastEvent[1]][j].rem
        /\ retired = AgentIds
              => \E i, j \in AgentIds : samples[i] # samples[j]

\* in S2 the last agent has entered the link after all the others, in the
\* tick in which they all start
C25_Witness ==
    /\ IsS2
    /\ lastEvent # << >>
    /\ lastEvent[3] = "depart"
    /\ EnteredBefore(lastEvent[1], lastEvent[2]) = AgentIds \ {lastEvent[2]}
    /\ occ[lastEvent[1]][1] = NAgents
    /\ time[lastEvent[1]] = 1

\* _total_rerouting, summed over the workers
TotalRerouting == SumOver(rerouting, Procs)

\* the worker that holds the test agent of S3 while it travels a link, if any
TestAgentOnLink(p) == TestAgent \in LocalIds(p) /\ ~agents[p][TestAgent].at_node

RECURSIVE Folded(_)
Folded(ss) ==
    IF Len(ss) = 1 THEN ss[1]
    ELSE LET old == Folded(SubSeq(ss, 1, Len(ss) - 1))
             smp == ss[Len(ss)]
         IN  Frac(old[1] * smp[2] + smp[1] * old[2], 2 * old[2] * smp[2])

\* the workers whose fitness map has a value for agent i
FitnessHolders(i) == {p \in Procs : i \in DOMAIN fitness[p]}

\* C27 (fitness folding): for every agent that has completed a trip, there is
\* exactly one fitness value for its id, and it is the first sample after the
\* first trip and (previous value + new sample) / 2 after each later trip,
\* whichever workers the agent completed its trips on.
C27_FitnessFolding ==
    \A i \in AgentIds :
        samples[i] # << >>
            => /\ Cardinality(FitnessHolders(i)) = 1
               /\ \A p \in FitnessHolders(i) : fitness[p][i] = Folded(samples[i])

\* C28 (recording index range): at every tick the aggregate bucket index lies
\* in [0, 1440/interval) and, at a snapshot tick, the snapshot slot index lies
\* in [0, 1440/snapshot_interval), also when the clock is exactly 86400 s or
\* a multiple of it; the indices equal floor(now / (interval * 60)) mod
\* (1440 / interval).
C28_RecordingIndexRange ==
    (plan.kind = "record" /\ plan.now > plan.start)
        => /\ plan.bucket \in 0 .. (DayMinutes \div plan.interval) - 1
           /\ plan.bucket = (plan.now \div (plan.interval * 60))
                                % (DayMinutes \div plan.interval)
           /\ plan.snap
                 => /\ plan.slot \in 0 .. (DayMinutes \div plan.snapshot) - 1
                    /\ plan.slot = (plan.now \div (plan.snapshot * 60))
                                      % (DayMinutes \div plan.snapshot)

\* the last loop body made its agent enter a link
EnteredLink == lastEvent # << >> /\ lastEvent[3] \in {"depart", "reroute"}

\* C29 (depart-node ordering): when an agent enters link l, the occupancy of
\* l is incremented before the travel time is computed: the remaining time
\* the agent receives is the BPR travel time at the occupancy that counts
\* this agent already (travel_time(1) on an empty link, not travel_time(0)).
C29_DepartOrdering ==
    EnteredLink =>
        LET p == lastEvent[1]
            a == agents[lastEvent[1]][lastEvent[2]]
        IN  /\ occ[p][a.cur_link] >= 1
            /\ a.rem = TimeOnLink(a.cur_link, occ[p][a.cur_link])

\* C30 (rerouting counter): the rerouting counter is incremented exactly once
\* in each depart-node transition in which the path of the agent is replaced
\* by an edge-avoiding recomputation, and in no other transition: it is not
\* incremented when the predicate is true at a node with a single outgoing
\* link, where the path is kept.
C30_ReroutingCounter ==
    [][\A p \in Procs :
          LoopBody(p)
              => /\ rerouting'[p] = rerouting[p] + (IF lastEvent'[3] = "reroute" THEN 1 ELSE 0)
                 /\ \A q \in Procs \ {p} : rerouting'[q] = rerouting[q]]_vars

(***************************************************************************)
(* The life of an agent                                                    *)
(***************************************************************************)
\* the trips agent i has completed, one fitness sample being taken per trip end
TripsCompleted(i) == Len(samples[i])

\* the trips the initialisation read for agent i
TripsPlanned(i) == Len(population[i].trips)

\* C31 : every live agent has a non-empty trip list, the trips it still holds
\* being those it has not completed; an agent is gone from every worker exactly
\* when it has completed the last trip of its list; and every completed trip
\* adds one to trips_performed, so that the sum over the workers equals the
\* number of completed trips, and at the end of a run the number of all trips
C31_AgentLifecycle ==
    /\ \A p \in Procs : \A i \in LocalIds(p) :
          /\ agents[p][i].trips # << >>
          /\ TripsCompleted(i) = TripsPlanned(i) - Len(agents[p][i].trips)
    /\ \A i \in DOMAIN population :
          i \notin AllIds <=> TripsCompleted(i) = TripsPlanned(i)
    /\ SumOver(tripsPerformed, Procs)
          = SumOver([i \in DOMAIN population |-> TripsCompleted(i)], DOMAIN population)
    /\ AllIds = {} =>
          SumOver(tripsPerformed, Procs)
            = SumOver([i \in DOMAIN population |-> TripsPlanned(i)], DOMAIN population)

\* a run has ended in which an agent of two trips was removed and three trips
\* or more were performed
C31_Witness ==
    /\ AllIds = {}
    /\ \E i \in DOMAIN population : TripsPlanned(i) = 2
    /\ SumOver(tripsPerformed, Procs) >= 3

(***************************************************************************)
(* The snapshot of the links state                                         *)
(***************************************************************************)
\* worker p leaves the main loop of a snapshot tick and takes the snapshot
SnapshotTaken(p) ==
    pc[p] = "walk" /\ pc'[p] = "sync" /\ IsSnapshotTick(time[p], SnapshotMinutes)

\* C32 : at a snapshot tick the count a worker adds to the snapshot slot of a
\* link equals the occupancy of the link on that worker at that moment (so an
\* agent that stands at a node is recorded on no link), and the worker writes
\* only to links it owns
C32_SnapshotContent ==
    [][\A p \in Procs :
          SnapshotTaken(p) =>
              \A l \in LinkIds :
                  LET k     == SnapshotInterval(time[p], SnapshotMinutes)
                      added == SnapshotCount(snapshot'[p], l, k) - SnapshotCount(snapshot[p], l, k)
                  IN  /\ added = occ[p][l]
                      /\ added > 0 => LinkOwner(l) = p]_vars

(***************************************************************************)
(* Ties in the heap                                                        *)
(***************************************************************************)
\* the entries of the heap under test that carry the smallest key; the handle
\* of an entry is the rank of its insertion
SmallestEntries ==
    {n \in Members(heap) : \A m \in Members(heap) : heap.nodes[n].key <= heap.nodes[m].key}

\* C33 : whenever several entries share the smallest key, minimum() and
\* deletemin() take the one that was inserted earliest, after any sequence of
\* inserts, decrease-keys and extractions
C33_TieBreaking ==
    heap.min # NULL => \A n \in SmallestEntries : heap.min <= n

(***************************************************************************)
(* The trip catalog at ingest                                              *)
(***************************************************************************)
\* the origin and the destination of every trip of a list of trips
LegsOf(trips) == [j \in DOMAIN trips |-> <<trips[j].o, trips[j].d>>]

\* the rows of a trips file in maximal runs of one (household, person)
RECURSIVE RunsOf(_)
RunsOf(rows) ==
    IF rows = << >> THEN << >>
    ELSE LET h    == Head(rows)
             rest == RunsOf(Tail(rows))
         IN  IF rest # << >> /\ Head(rest)[1].hh = h.hh /\ Head(rest)[1].person = h.person
             THEN << <<h>> \o Head(rest) >> \o Tail(rest)
             ELSE << <<h>> >> \o rest

\* the trips of a run that move between two nodes by car or taxi
RetainedLegs(run) ==
    LET Moves(r) == r.orig # r.dest /\ IsRoadMode(r.mode)
        kept     == SelectSeq(run, Moves)
    IN  [j \in DOMAIN kept |-> <<kept[j].orig, kept[j].dest>>]

\* the trips between the consecutive acts of a person, the return home
\* included, that move between two nodes
PersonLegs(per) ==
    LET stops     == <<per.home>> \o per.acts \o <<per.home>>
        pairs     == [k \in 1 .. (Len(stops) - 1) |-> <<stops[k], stops[k + 1]>>]
        Moves(pr) == pr[1] # pr[2]
    IN  SelectSeq(pairs, Moves)

\* the lists of trips that start on worker p, the empty ones left out
StartingOn(p, legs) ==
    LET Local(l) == l # << >> /\ IsInLocalBounds(p, NodeX2(l[1][1]), NodeY2(l[1][1]))
    IN  SelectSeq(legs, Local)

\* what the reader of plan is expected to create: per run of rows, or per
\* person, the trips that remain once the same-node trips are dropped
ExpectedLegs ==
    IF plan.format = "transims"
    THEN StartingOn(plan.proc, [i \in DOMAIN RunsOf(plan.rows) |->
                                   RetainedLegs(RunsOf(plan.rows)[i])])
    ELSE StartingOn(plan.proc, [i \in DOMAIN plan.persons |-> PersonLegs(plan.persons[i])])

\* C34 : in both input formats a trip whose origin equals its destination is
\* dropped without affecting the other trips of the agent, and the agent is
\* created with the remaining trips whenever at least one remains
C34_SameNodeTrips ==
    (plan.kind = "ingest" /\ plan.done) =>
        [i \in DOMAIN plan.created |-> LegsOf(plan.created[i].trips)] = ExpectedLegs

\* C40 : in the TRANSIMS format every created agent has the id
\* household_id * 100 + person_id of the rows that supplied its trips, and
\* agents created from distinct (household, person) pairs have distinct ids
C40_AgentIdentity ==
    (plan.kind = "ingest" /\ plan.format = "transims" /\ plan.done) =>
        /\ \A i \in DOMAIN plan.created :
              plan.created[i].id = plan.created[i].of[1] * 100 + plan.created[i].of[2]
        /\ \A i, j \in DOMAIN plan.created :
              plan.created[i].of # plan.created[j].of
                  => plan.created[i].id # plan.created[j].id

(***************************************************************************)
(* The aggregate counters                                                  *)
(***************************************************************************)
\* the live agents that are en route
EnRoute == {i \in AllIds : \E p \in Procs : i \in LocalIds(p) /\ agents[p][i].en_route}

\* C35 : the local moving counters add up to the number of live agents that
\* are en route, although an agent may start a trip on one worker and end it on
\* another; a local counter may be negative, the sum never is
C35_MovingCounter ==
    /\ SumOver(moving, Procs) = Cardinality(EnRoute)
    /\ SumOver(moving, Procs) >= 0

\* a worker has counted more trip ends than trip starts while an agent is en route
C35_Witness ==
    /\ \E p \in Procs : moving[p] < 0
    /\ EnRoute # {}

(***************************************************************************)
(* The links an agent enters                                               *)
(***************************************************************************)
\* the node at which an agent that is at a node stands: the origin of its trip
\* before the first link, the end node of the link it left afterwards
StandsAt(a) == IF a.nlink = 0 THEN Head(a.trips).o ELSE net.links[a.cur_link].to

\* C36 : whenever the depart-node transition fires for an agent (first link of
\* a trip, intermediate node, after a reroute, first tick after a migration)
\* its path is non-empty and the link it enters starts at the node at which
\* the agent stands; the link on which a trip ends leads to the destination of
\* the trip
C36_DepartPrecondition ==
    [][\A p \in Procs :
          /\ LoopBody(p) =>
                LET id == Head(walk[p])
                    a  == agents[p][id]
                IN  /\ (a.at_node /\ lastEvent'[3] # "none") => a.path # << >>
                    /\ lastEvent'[3] \in {"depart", "reroute"} =>
                          net.links[agents'[p][id].cur_link].from = StandsAt(a)
                    /\ lastEvent'[3] = "endtrip" =>
                          net.links[a.cur_link].to = Head(a.trips).d
          /\ (pc[p] = "walk" /\ pc'[p] = "aborted" /\ agents[p][Head(walk[p])].at_node)
                => agents[p][Head(walk[p])].path # << >>]_vars

\* an agent that was migrated in the last synchronisation has been rerouted at
\* the node it arrived at and has entered the first link of its new path
C36_Witness ==
    /\ lastEvent # << >>
    /\ lastEvent[3] = "reroute"
    /\ lastEvent[2] \in lastMigrated

(***************************************************************************)
(* The movement log                                                        *)
(***************************************************************************)
\* C38 : in the rows logged for one agent the link index within the path is
\* 1, 2, 3, ... along a trip (it grows by exactly one per link entered, also
\* across a reroute) while the path index stays the same, and on the next trip
\* the path index is one higher and the link index is 1 again
C38_LinkIndex ==
    \A i \in AgentIds : \A k \in DOMAIN moves[i] :
        IF k = 1
        THEN moves[i][k].link_on_path = 1
        ELSE \/ /\ moves[i][k].path_id = moves[i][k - 1].path_id
                /\ moves[i][k].link_on_path = moves[i][k - 1].link_on_path + 1
             \/ /\ moves[i][k].path_id = moves[i][k - 1].path_id + 1
                /\ moves[i][k].link_on_path = 1

(***************************************************************************)
(* The duration of a trip                                                  *)
(***************************************************************************)
\* the clock at which agent i entered the link it entered last
LastEntry(i) == moves[i][Len(moves[i])].time

\* a loop body of worker p in which the agent is at clock now, start being the
\* starting time of its trip: it begins the trip no earlier than slack units
\* before the start, and it ends it at least one tick after it entered its last
\* link and strictly after the start
DurationRule(p, slack) ==
    LoopBody(p) =>
        LET id    == Head(walk[p])
            a     == agents[p][id]
            now   == time[p] * TimeScale
            start == StartingTime(Head(a.trips))
        IN  /\ (lastEvent'[3] \in {"depart", "reroute"} /\ ~a.en_route)
                  => now >= start - slack
            /\ lastEvent'[3] = "endtrip"
                  => /\ time[p] >= LastEntry(id) + 1
                     /\ now - start > 0

\* C37 : with a time tolerance below one tick, at every trip end the simulated
\* duration now - trip.start is strictly positive: the departure never happens
\* before the starting time of the trip and the arrival is at least one tick
\* after the departure
C37_PositiveDuration ==
    [][TimeTolerance < TimeScale => \A p \in Procs : DurationRule(p, 0)]_vars

\* C37 amended : with a time tolerance below one tick, at every trip end the
\* simulated duration now - trip.start is strictly positive: the departure
\* never happens more than the time tolerance before the starting time of the
\* trip and the arrival is at least one tick after the departure
C37_PositiveDurationAmended ==
    [][TimeTolerance < TimeScale => \A p \in Procs : DurationRule(p, TimeTolerance)]_vars

\* an agent has ended a trip that it began before the starting time of the trip
C37_Witness ==
    \E i \in DOMAIN population :
        /\ samples[i] # << >>
        /\ moves[i] # << >>
        /\ moves[i][1].time * TimeScale < StartingTime(population[i].trips[1])

(***************************************************************************)
(* The edge-avoiding planner on failure                                    *)
(***************************************************************************)
\* C39 : when the A* search run inside the edge-avoiding planner fails, the
\* cost of the avoided link is back at its original value when the error
\* leaves the planner: a failed call leaves the network unchanged
C39_AvoidOnFailure ==
    (plan.kind = "avoid" /\ plan.err # NoErr) =>
        /\ LinkCost(net, plan.avoid, plan.fastest)
              = LinkCost(plan.before, plan.avoid, plan.fastest)
        /\ net = plan.before
====
